---- MODULE Spec2Model ----
(***************************************************************************)
(* A model of the SEOFrog report sheets (seofrog/exporters/sheets): the    *)
(* rule packs that turn a record set (a pandas DataFrame) into one report  *)
(* per category, and the consolidation they share (BaseSheet).             *)
(*                                                                         *)
(* Values.  A cell of the DataFrame is modelled as a sequence of length at *)
(* most one: <<>> is a missing value (None / NaN), <<v>> is the value v.   *)
(* A text (url, title, meta description) is a sequence of tokens, '' is    *)
(* the empty sequence; texts are ordered as Python orders strings.         *)
(* A row is a function from the columns of the DataFrame to cells.         *)
(***************************************************************************)
EXTENDS Integers, Sequences, FiniteSets, TLC

VARIABLES sheet, columns, df, drafts, writer, pc

vars == <<sheet, columns, df, drafts, writer, pc>>

----------------------------------------------------------------------------
(* Bounds of the model *)

MaxRecords == 2

MaxDupRecords == 5

MaxSummaryRecords == 11

MaxColumns == 4

\* the most rows handed to BaseSheet._export_dataframe on its own
MaxExportRows == 3

----------------------------------------------------------------------------
(* Cells: missing values and the pandas / Python operations on them *)

NaN == <<>>

Some(v) == <<v>>

IsNaN(x) == x = <<>>

\* Series.fillna(d)
fillna(x, d) == IF IsNaN(x) THEN d ELSE x[1]

\* row.get(col, default): the default only when the column does not exist
get(row, col, default) == IF col \in DOMAIN row THEN row[col] ELSE Some(default)

\* Python/NumPy comparisons of a cell with a number: any comparison with NaN is False
gt(x, n) == ~IsNaN(x) /\ x[1] > n

lt(x, n) == ~IsNaN(x) /\ x[1] < n

eq(x, n) == ~IsNaN(x) /\ x[1] = n

\* arithmetic on cells: NaN propagates
sub(x, y) == IF IsNaN(x) \/ IsNaN(y) THEN NaN ELSE Some(x[1] - y[1])

add(x, y) == IF IsNaN(x) \/ IsNaN(y) THEN NaN ELSE Some(x[1] + y[1])

----------------------------------------------------------------------------
(* Texts: sequences of tokens, ordered as Python orders the strings *)

\* the tokens of the model in ascending string order ('/' sorts before letters)
TokenOrder ==
  <<"/", "about", "artigo", "blog", "categoria", "category", "contact",
    "contato", "galeria", "gallery", "post", "product", "produto", "sobre",
    "x", "y">>

TokenRank(t) == CHOOSE i \in 1..Len(TokenOrder) : TokenOrder[i] = t

RECURSIVE StrLess(_, _)
\* s < t for two texts (lexicographic)
StrLess(s, t) ==
  IF t = <<>> THEN FALSE
  ELSE IF s = <<>> THEN TRUE
  ELSE IF Head(s) = Head(t) THEN StrLess(Tail(s), Tail(t))
  ELSE TokenRank(Head(s)) < TokenRank(Head(t))

\* 'pat in s' for texts
Contains(s, pat) ==
  \E i \in 0..(Len(s) - Len(pat)) :
     \A j \in 1..Len(pat) : s[i + j] = pat[j]

\* s.count('/')
CountSlash(s) == Cardinality({i \in 1..Len(s) : s[i] = "/"})

\* s.endswith('/')
EndsWithSlash(s) == Len(s) > 0 /\ s[Len(s)] = "/"

----------------------------------------------------------------------------
(* Sequences *)

RECURSIVE Concat(_)
\* the concatenation of a sequence of sequences (list.extend, in order)
Concat(ss) == IF ss = <<>> THEN <<>> ELSE Head(ss) \o Concat(Tail(ss))

\* df[condition]: the rows satisfying the condition, in order
SelectRows(s, P(_)) ==
  LET RECURSIVE Sel(_)
      Sel(t) == IF t = <<>> THEN <<>>
                ELSE IF P(Head(t)) THEN <<Head(t)>> \o Sel(Tail(t))
                ELSE Sel(Tail(t))
  IN Sel(s)

\* x inserted after every element that is not greater than it
InsertStable(s, x, Less(_, _)) ==
  LET RECURSIVE Ins(_)
      Ins(t) == IF t = <<>> THEN <<x>>
                ELSE IF Less(x, Head(t)) THEN <<x>> \o t
                ELSE <<Head(t)>> \o Ins(Tail(t))
  IN Ins(s)

\* DataFrame.sort_values on several keys: a stable sort
SortStable(s, Less(_, _)) ==
  LET RECURSIVE Srt(_)
      Srt(n) == IF n = 0 THEN <<>>
                ELSE InsertStable(Srt(n - 1), s[n], Less)
  IN Srt(Len(s))

\* DataFrame.drop_duplicates(subset=..., keep='first'), Key the subset's cells
drop_duplicates(s, Key(_)) ==
  LET keep == {i \in 1..Len(s) : \A j \in 1..(i - 1) : Key(s[j]) # Key(s[i])}
      RECURSIVE Pick(_)
      Pick(i) == IF i > Len(s) THEN <<>>
                 ELSE IF i \in keep THEN <<s[i]>> \o Pick(i + 1)
                 ELSE Pick(i + 1)
  IN Pick(1)

\* [F(x) for x in s]
MapSeq(s, F(_)) == [i \in 1..Len(s) |-> F(s[i])]

----------------------------------------------------------------------------
(* Results of a rule: the draft issues, or the exception it raised *)

Ok(issues) == [exc |-> "", issues |-> issues]

Raise(e) == [exc |-> e, issues |-> <<>>]

\* the rules of create_sheet run in order inside one try block: the first
\* exception ends the run, otherwise the drafts are extended in rule order
RunRules(results) ==
  LET bad == {i \in 1..Len(results) : results[i].exc # ""}
  IN IF bad = {}
     THEN Ok(Concat(MapSeq(results, LAMBDA r : r.issues)))
     ELSE Raise(results[CHOOSE i \in bad : \A j \in bad : i <= j].exc)

\* the problem label of an issue: the fixed text and the value embedded in it
Label(text, val) == [text |-> text, val |-> val]

----------------------------------------------------------------------------
(* BaseSheet *)

\* BaseSheet._safe_filter (the condition is evaluated by the caller)
safe_filter(rows, cols, column, Cond(_)) ==
  IF column \notin cols THEN <<>> ELSE SelectRows(rows, Cond)

\* an empty table written in place of the marker
empty_table(msg) == [kind |-> "rows", msg |-> "", rows |-> <<>>]

\* the tables a sheet can write
SuccessTable(msg) == [kind |-> "success", msg |-> msg, rows |-> <<>>]

ErrorTable(msg) == [kind |-> "error", msg |-> msg, rows |-> <<>>]

RowsTable(rows) == [kind |-> "rows", msg |-> "", rows |-> rows]

\* df[available_cols]
Project(row, cols) == [c \in (DOMAIN row) \cap cols |-> row[c]]

\* the columns of a DataFrame built from a list of dicts
ColumnsOf(rows) == UNION {DOMAIN rows[i] : i \in 1..Len(rows)}

\* a variant of _export_dataframe without the drop_duplicates on url
export_dataframe_keep_all(rows, cols) ==
  IF rows = <<>>
  THEN SuccessTable("Nenhum problema encontrado na categoria")
  ELSE IF cols \cap ColumnsOf(rows) = {}
  THEN ErrorTable("Colunas necessarias nao encontradas")
  ELSE RowsTable(MapSeq(rows, LAMBDA r : Project(r, cols)))

\* BaseSheet._export_dataframe: the table written for the rows handed in
export_dataframe(rows, cols) ==
  IF rows = <<>>
  THEN SuccessTable("Nenhum problema encontrado na categoria")
  ELSE IF cols \cap ColumnsOf(rows) = {}
  THEN ErrorTable("Colunas necessarias nao encontradas")
  ELSE LET projected == MapSeq(rows, LAMBDA r : Project(r, cols))
       IN IF "url" \in ColumnsOf(projected)
          THEN RowsTable(drop_duplicates(projected, LAMBDA r : r["url"]))
          ELSE RowsTable(projected)

\* the criticality_order map of _sort_by_criticality, unmapped values after BAIXO
CriticalityRank(c) ==
  CASE c = "CRITICO MAXIMO" -> 0
    [] c = "CRITICO" -> 1
    [] c = "ALTO" -> 2
    [] c = "MEDIO" -> 3
    [] c = "BAIXO" -> 4
    [] OTHER -> 5

\* ascending order of a text column, missing values last
UrlLess(a, b) ==
  IF IsNaN(a) THEN FALSE
  ELSE IF IsNaN(b) THEN TRUE
  ELSE StrLess(a[1], b[1])

\* a variant of sort_by_criticality that sorts on the url alone
sort_by_url(rows) ==
  SortStable(rows, LAMBDA a, b : UrlLess(a["url"], b["url"]))

\* BaseSheet._sort_by_criticality: sort_values(['_sort_order', 'url'])
sort_by_criticality(rows) ==
  SortStable(rows,
    LAMBDA a, b :
      \/ CriticalityRank(a["criticidade"]) < CriticalityRank(b["criticidade"])
      \/ /\ CriticalityRank(a["criticidade"]) = CriticalityRank(b["criticidade"])
         /\ UrlLess(a["url"], b["url"]))

\* drop_duplicates(subset=['url', 'problema'], keep='first')
DropUrlProblem(rows) == drop_duplicates(rows, LAMBDA r : <<r["url"], r["problema"]>>)

----------------------------------------------------------------------------
(* TitleProblemsSheet *)

TitleColumns == {"url", "problema", "criticidade", "title", "title_length"}

\* the long-title rule with the threshold at 60 included
Title_find_long_title_issues_from_60(rows, cols) ==
  IF "title_length" \notin cols THEN Ok(<<>>)
  ELSE Ok(MapSeq(
         safe_filter(rows, cols, "title_length",
                     LAMBDA r : fillna(r["title_length"], 0) >= 60),
         LAMBDA r :
           [url |-> get(r, "url", <<>>),
            problema |-> Label("Titulo muito longo", r["title_length"]),
            criticidade |-> IF gt(r["title_length"], 70) THEN "ALTO" ELSE "MEDIO",
            title |-> get(r, "title", <<>>),
            title_length |-> r["title_length"]]))

Title_find_no_title_issues(rows, cols) ==
  IF "title" \notin cols THEN Ok(<<>>)
  ELSE Ok(MapSeq(
         safe_filter(rows, cols, "title", LAMBDA r : fillna(r["title"], <<>>) = <<>>),
         LAMBDA r :
           [url |-> get(r, "url", <<>>),
            problema |-> Label("Sem titulo", NaN),
            criticidade |-> "CRITICO",
            title |-> Some(<<>>),
            title_length |-> Some(0)]))

Title_find_long_title_issues(rows, cols) ==
  IF "title_length" \notin cols THEN Ok(<<>>)
  ELSE Ok(MapSeq(
         safe_filter(rows, cols, "title_length",
                     LAMBDA r : fillna(r["title_length"], 0) > 60),
         LAMBDA r :
           [url |-> get(r, "url", <<>>),
            problema |-> Label("Titulo muito longo", r["title_length"]),
            criticidade |-> IF gt(r["title_length"], 70) THEN "ALTO" ELSE "MEDIO",
            title |-> get(r, "title", <<>>),
            title_length |-> r["title_length"]]))

Title_find_short_title_issues(rows, cols) ==
  IF "title_length" \notin cols \/ "title" \notin cols THEN Ok(<<>>)
  ELSE Ok(MapSeq(
         safe_filter(rows, cols, "title_length",
                     LAMBDA r : /\ fillna(r["title_length"], 100) < 30
                                /\ fillna(r["title"], <<>>) # <<>>),
         LAMBDA r :
           [url |-> get(r, "url", <<>>),
            problema |-> Label("Titulo muito curto", r["title_length"]),
            criticidade |-> "MEDIO",
            title |-> r["title"],
            title_length |-> r["title_length"]]))

\* the rows of the groups of size >= 2 of a non-empty text column, in the order
\* of groupby: groups by ascending value, rows of a group in DataFrame order
DuplicateGroups(rows, column) ==
  LET non_empty == SelectRows(rows, LAMBDA r : fillna(r[column], <<>>) # <<>>)
      duplicated == SelectRows(non_empty,
                      LAMBDA r : Cardinality({i \in 1..Len(non_empty) :
                                     non_empty[i][column] = r[column]}) > 1)
  IN SortStable(duplicated, LAMBDA a, b : StrLess(a[column][1], b[column][1]))

\* a variant of GroupSize that counts the other rows of the group
GroupSize_others(rows, column, r) ==
  Cardinality({i \in 1..Len(rows) : rows[i][column] = r[column]}) - 1

\* len(group) for the group of a row
GroupSize(rows, column, r) ==
  Cardinality({i \in 1..Len(rows) : rows[i][column] = r[column]})

Title_find_duplicate_title_issues(rows, cols) ==
  IF "title" \notin cols THEN Ok(<<>>)
  ELSE LET groups == DuplicateGroups(rows, "title")
       IN IF groups = <<>> THEN Ok(<<>>)
          ELSE IF "url" \notin cols THEN Raise("KeyError")
          ELSE Ok(MapSeq(groups,
                 LAMBDA r :
                   [url |-> r["url"],
                    problema |-> Label("Titulo duplicado",
                                       Some(GroupSize(groups, "title", r))),
                    criticidade |-> IF GroupSize(groups, "title", r) > 3
                                    THEN "ALTO" ELSE "MEDIO",
                    title |-> r["title"],
                    title_length |-> get(r, "title_length", 0)]))

Title_export_consolidated_issues(issues) ==
  export_dataframe(sort_by_criticality(DropUrlProblem(issues)), TitleColumns)

\* the drafts of the category, in rule order
Title_issues(rows, cols) ==
  RunRules(<<Title_find_no_title_issues(rows, cols),
             Title_find_long_title_issues(rows, cols),
             Title_find_short_title_issues(rows, cols),
             Title_find_duplicate_title_issues(rows, cols)>>)

\* TitleProblemsSheet.create_sheet: the tables written, in order
Title_create_sheet(rows, cols) ==
  LET res == Title_issues(rows, cols)
  IN IF res.exc # "" THEN <<ErrorTable(res.exc)>>
     ELSE IF res.issues # <<>> THEN <<Title_export_consolidated_issues(res.issues)>>
     ELSE <<SuccessTable("Nenhum problema de titulo encontrado")>>

----------------------------------------------------------------------------
(* MetaProblemsSheet *)

MetaColumns ==
  {"url", "problema", "criticidade", "meta_description", "meta_description_length"}

Meta_find_no_meta_issues(rows, cols) ==
  IF "meta_description" \notin cols THEN Ok(<<>>)
  ELSE Ok(MapSeq(
         safe_filter(rows, cols, "meta_description",
                     LAMBDA r : fillna(r["meta_description"], <<>>) = <<>>),
         LAMBDA r :
           [url |-> get(r, "url", <<>>),
            problema |-> Label("Sem meta description", NaN),
            criticidade |-> "ALTO",
            meta_description |-> Some(<<>>),
            meta_description_length |-> Some(0)]))

\* the short-meta rule with the threshold at 120 included
Meta_find_short_meta_issues_upto_120(rows, cols) ==
  IF "meta_description_length" \notin cols \/ "meta_description" \notin cols
  THEN Ok(<<>>)
  ELSE Ok(MapSeq(
         safe_filter(rows, cols, "meta_description_length",
                     LAMBDA r : /\ fillna(r["meta_description_length"], 200) <= 120
                                /\ fillna(r["meta_description"], <<>>) # <<>>),
         LAMBDA r :
           [url |-> get(r, "url", <<>>),
            problema |-> Label("Meta description muito curta",
                               r["meta_description_length"]),
            criticidade |-> "BAIXO",
            meta_description |-> r["meta_description"],
            meta_description_length |-> r["meta_description_length"]]))

Meta_find_long_meta_issues(rows, cols) ==
  IF "meta_description_length" \notin cols THEN Ok(<<>>)
  ELSE Ok(MapSeq(
         safe_filter(rows, cols, "meta_description_length",
                     LAMBDA r : fillna(r["meta_description_length"], 0) > 160),
         LAMBDA r :
           [url |-> get(r, "url", <<>>),
            problema |-> Label("Meta description muito longa",
                               r["meta_description_length"]),
            criticidade |-> IF lt(r["meta_description_length"], 180)
                            THEN "MEDIO" ELSE "ALTO",
            meta_description |-> get(r, "meta_description", <<>>),
            meta_description_length |-> r["meta_description_length"]]))

Meta_find_short_meta_issues(rows, cols) ==
  IF "meta_description_length" \notin cols \/ "meta_description" \notin cols
  THEN Ok(<<>>)
  ELSE Ok(MapSeq(
         safe_filter(rows, cols, "meta_description_length",
                     LAMBDA r : /\ fillna(r["meta_description_length"], 200) < 120
                                /\ fillna(r["meta_description"], <<>>) # <<>>),
         LAMBDA r :
           [url |-> get(r, "url", <<>>),
            problema |-> Label("Meta description muito curta",
                               r["meta_description_length"]),
            criticidade |-> "BAIXO",
            meta_description |-> r["meta_description"],
            meta_description_length |-> r["meta_description_length"]]))

Meta_find_duplicate_meta_issues(rows, cols) ==
  IF "meta_description" \notin cols THEN Ok(<<>>)
  ELSE LET groups == DuplicateGroups(rows, "meta_description")
       IN IF groups = <<>> THEN Ok(<<>>)
          ELSE IF "url" \notin cols THEN Raise("KeyError")
          ELSE Ok(MapSeq(groups,
                 LAMBDA r :
                   [url |-> r["url"],
                    problema |-> Label("Meta description duplicada",
                                       Some(GroupSize(groups, "meta_description", r))),
                    criticidade |-> IF GroupSize(groups, "meta_description", r) > 2
                                    THEN "ALTO" ELSE "MEDIO",
                    meta_description |-> r["meta_description"],
                    meta_description_length |->
                      get(r, "meta_description_length", 0)]))

Meta_export_consolidated_issues(issues) ==
  export_dataframe(sort_by_criticality(DropUrlProblem(issues)), MetaColumns)

Meta_issues(rows, cols) ==
  RunRules(<<Meta_find_no_meta_issues(rows, cols),
             Meta_find_long_meta_issues(rows, cols),
             Meta_find_short_meta_issues(rows, cols),
             Meta_find_duplicate_meta_issues(rows, cols)>>)

\* MetaProblemsSheet.create_sheet: the tables written, in order
Meta_create_sheet(rows, cols) ==
  LET res == Meta_issues(rows, cols)
  IN IF res.exc # "" THEN <<ErrorTable(res.exc)>>
     ELSE IF res.issues # <<>> THEN <<Meta_export_consolidated_issues(res.issues)>>
     ELSE <<SuccessTable("Nenhum problema de meta description")>>

----------------------------------------------------------------------------
(* HeadingProblemsSheet *)

HeadingColumns ==
  {"url", "problema", "criticidade", "h1_count", "h2_count", "h3_count"}

\* a variant of Heading_find_no_h1_issues that selects on a missing value only
\* (isna() in place of fillna(0) == 0)
Heading_find_no_h1_issues_isna(rows, cols) ==
  IF "h1_count" \notin cols THEN Ok(<<>>)
  ELSE Ok(MapSeq(
         safe_filter(rows, cols, "h1_count", LAMBDA r : IsNaN(r["h1_count"])),
         LAMBDA r :
           [url |-> get(r, "url", <<>>),
            problema |-> Label("Sem H1", NaN),
            criticidade |-> "CRITICO",
            h1_count |-> Some(0),
            h2_count |-> get(r, "h2_count", 0),
            h3_count |-> get(r, "h3_count", 0)]))

Heading_find_no_h1_issues(rows, cols) ==
  IF "h1_count" \notin cols THEN Ok(<<>>)
  ELSE Ok(MapSeq(
         safe_filter(rows, cols, "h1_count", LAMBDA r : fillna(r["h1_count"], 0) = 0),
         LAMBDA r :
           [url |-> get(r, "url", <<>>),
            problema |-> Label("Sem H1", NaN),
            criticidade |-> "CRITICO",
            h1_count |-> Some(0),
            h2_count |-> get(r, "h2_count", 0),
            h3_count |-> get(r, "h3_count", 0)]))

Heading_find_multiple_h1_issues(rows, cols) ==
  IF "h1_count" \notin cols THEN Ok(<<>>)
  ELSE Ok(MapSeq(
         safe_filter(rows, cols, "h1_count", LAMBDA r : fillna(r["h1_count"], 0) > 1),
         LAMBDA r :
           [url |-> get(r, "url", <<>>),
            problema |-> Label("Multiplos H1", r["h1_count"]),
            criticidade |-> "ALTO",
            h1_count |-> r["h1_count"],
            h2_count |-> get(r, "h2_count", 0),
            h3_count |-> get(r, "h3_count", 0)]))

Heading_find_no_h2_issues(rows, cols) ==
  IF "h2_count" \notin cols THEN Ok(<<>>)
  ELSE Ok(MapSeq(
         SelectRows(
           safe_filter(rows, cols, "h2_count", LAMBDA r : fillna(r["h2_count"], 0) = 0),
           LAMBDA r : gt(get(r, "h1_count", 0), 0)),
         LAMBDA r :
           [url |-> get(r, "url", <<>>),
            problema |-> Label("Sem H2 (estrutura incompleta)", NaN),
            criticidade |-> "MEDIO",
            h1_count |-> get(r, "h1_count", 0),
            h2_count |-> Some(0),
            h3_count |-> get(r, "h3_count", 0)]))

\* the broken levels of a row: level N present while level N-1 is zero, N = 3..6
hierarchy_problems(r) ==
  LET h(n) == get(r, CASE n = 2 -> "h2_count" [] n = 3 -> "h3_count"
                       [] n = 4 -> "h4_count" [] n = 5 -> "h5_count"
                       [] n = 6 -> "h6_count", 0)
  IN {n \in 3..6 : gt(h(n), 0) /\ eq(h(n - 1), 0)}

\* the joined text of the broken levels ('H3 sem H2, H4 sem H3'), as a number
hierarchy_text(S) ==
  (IF 3 \in S THEN 1 ELSE 0) + (IF 4 \in S THEN 2 ELSE 0)
  + (IF 5 \in S THEN 4 ELSE 0) + (IF 6 \in S THEN 8 ELSE 0)

Heading_find_hierarchy_issues(rows, cols) ==
  Ok(MapSeq(
       SelectRows(rows, LAMBDA r : hierarchy_problems(r) # {}),
       LAMBDA r :
         [url |-> get(r, "url", <<>>),
          problema |-> Label("Hierarquia quebrada", Some(hierarchy_text(hierarchy_problems(r)))),
          criticidade |-> "MEDIO",
          h1_count |-> get(r, "h1_count", 0),
          h2_count |-> get(r, "h2_count", 0),
          h3_count |-> get(r, "h3_count", 0)]))

Heading_find_long_h1_issues(rows, cols) ==
  IF "h1_length" \notin cols THEN Ok(<<>>)
  ELSE Ok(MapSeq(
         safe_filter(rows, cols, "h1_length", LAMBDA r : fillna(r["h1_length"], 0) > 70),
         LAMBDA r :
           [url |-> get(r, "url", <<>>),
            problema |-> Label("H1 muito longo", r["h1_length"]),
            criticidade |-> "BAIXO",
            h1_count |-> get(r, "h1_count", 0),
            h2_count |-> get(r, "h2_count", 0),
            h3_count |-> get(r, "h3_count", 0)]))

Heading_export_consolidated_issues(issues) ==
  export_dataframe(sort_by_criticality(DropUrlProblem(issues)), HeadingColumns)

Heading_issues(rows, cols) ==
  RunRules(<<Heading_find_no_h1_issues(rows, cols),
             Heading_find_multiple_h1_issues(rows, cols),
             Heading_find_no_h2_issues(rows, cols),
             Heading_find_hierarchy_issues(rows, cols),
             Heading_find_long_h1_issues(rows, cols)>>)

\* HeadingProblemsSheet.create_sheet: the tables written, in order
Heading_create_sheet(rows, cols) ==
  LET res == Heading_issues(rows, cols)
  IN IF res.exc # "" THEN <<ErrorTable(res.exc)>>
     ELSE IF res.issues # <<>> THEN <<Heading_export_consolidated_issues(res.issues)>>
     ELSE <<SuccessTable("Estrutura de headings adequada")>>

----------------------------------------------------------------------------
(* Page types *)

\* url = row.get('url', '').lower() raises AttributeError on a missing value;
\* the tokens of the model are lower case
UrlRaises(r) == IsNaN(get(r, "url", <<>>))

UrlOf(r) == get(r, "url", <<>>)[1]

HasSegment(u, w) == Contains(u, <<"/", w, "/">>)

HasPrefix(u, w) == Contains(u, <<"/", w>>)

\* H1H2MissingSheet._detect_page_type
H1H2_detect_page_type(u) ==
  IF HasSegment(u, "blog") \/ HasSegment(u, "artigo") THEN "Blog/Artigo"
  ELSE IF HasSegment(u, "produto") \/ HasSegment(u, "product") THEN "Produto"
  ELSE IF HasSegment(u, "categoria") \/ HasSegment(u, "category") THEN "Categoria"
  ELSE IF HasPrefix(u, "sobre") \/ HasPrefix(u, "about") THEN "Institucional"
  ELSE IF HasPrefix(u, "contato") \/ HasPrefix(u, "contact") THEN "Contato"
  ELSE IF EndsWithSlash(u) /\ CountSlash(u) <= 3 THEN "Homepage"
  ELSE "Conteudo"

\* ImageProblemsSheet._detect_page_type
Image_detect_page_type(u) ==
  IF HasSegment(u, "blog") \/ HasSegment(u, "artigo") THEN "Blog/Artigo"
  ELSE IF HasSegment(u, "produto") \/ HasSegment(u, "product") THEN "Produto"
  ELSE IF HasSegment(u, "categoria") \/ HasSegment(u, "category") THEN "Categoria"
  ELSE IF HasSegment(u, "galeria") \/ HasSegment(u, "gallery") THEN "Galeria"
  ELSE IF HasPrefix(u, "sobre") \/ HasPrefix(u, "about") THEN "Institucional"
  ELSE "Conteudo"

\* TechnicalProblemsSheet._detect_page_type
Technical_detect_page_type(u) ==
  IF HasSegment(u, "blog") \/ HasSegment(u, "artigo") \/ HasSegment(u, "post")
  THEN "Blog/Artigo"
  ELSE IF HasSegment(u, "produto") \/ HasSegment(u, "product") THEN "Produto"
  ELSE IF HasSegment(u, "categoria") \/ HasSegment(u, "category") THEN "Categoria"
  ELSE IF HasPrefix(u, "sobre") \/ HasPrefix(u, "about") THEN "Institucional"
  ELSE IF HasPrefix(u, "contato") \/ HasPrefix(u, "contact") THEN "Contato"
  ELSE IF EndsWithSlash(u) /\ CountSlash(u) <= 3 THEN "Homepage"
  ELSE "Conteudo"

\* PerformanceSheet._detect_page_type
Performance_detect_page_type(u) ==
  IF HasSegment(u, "blog") \/ HasSegment(u, "artigo") THEN "Blog/Artigo"
  ELSE IF HasSegment(u, "produto") \/ HasSegment(u, "product") THEN "Produto"
  ELSE IF HasSegment(u, "categoria") \/ HasSegment(u, "category") THEN "Categoria"
  ELSE IF EndsWithSlash(u) /\ CountSlash(u) <= 3 THEN "Homepage"
  ELSE "Conteudo"

\* a rule that builds one issue per selected row and calls _detect_page_type
\* for each: the first row with a missing url raises
PerRow(rows, Issue(_)) ==
  IF \E i \in 1..Len(rows) : UrlRaises(rows[i]) THEN Raise("AttributeError")
  ELSE Ok(MapSeq(rows, Issue))

----------------------------------------------------------------------------
(* H1H2MissingSheet *)

H1H2Columns ==
  {"url", "problema_h1_h2", "criticidade", "h1_count", "h2_count", "page_type"}

H1H2_find_no_h1_issues(rows, cols) ==
  IF "h1_count" \notin cols THEN Ok(<<>>)
  ELSE PerRow(
         safe_filter(rows, cols, "h1_count", LAMBDA r : fillna(r["h1_count"], 0) = 0),
         LAMBDA r :
           [url |-> get(r, "url", <<>>),
            problema_h1_h2 |-> "Sem H1",
            criticidade |-> "CRITICO",
            prioridade |-> 1,
            h1_count |-> Some(0),
            h2_count |-> get(r, "h2_count", 0),
            page_type |-> H1H2_detect_page_type(UrlOf(r))])

H1H2_find_no_h2_issues(rows, cols) ==
  IF "h2_count" \notin cols THEN Ok(<<>>)
  ELSE PerRow(
         SelectRows(
           safe_filter(rows, cols, "h2_count", LAMBDA r : fillna(r["h2_count"], 0) = 0),
           LAMBDA r : gt(get(r, "h1_count", 0), 0)),
         LAMBDA r :
           [url |-> get(r, "url", <<>>),
            problema_h1_h2 |-> "Sem H2",
            criticidade |-> "ALTO",
            prioridade |-> 2,
            h1_count |-> get(r, "h1_count", 0),
            h2_count |-> Some(0),
            page_type |-> H1H2_detect_page_type(UrlOf(r))])

H1H2_find_no_h1_h2_issues(rows, cols) ==
  IF "h1_count" \notin cols \/ "h2_count" \notin cols THEN Ok(<<>>)
  ELSE PerRow(
         safe_filter(rows, cols, "h1_count",
                     LAMBDA r : /\ fillna(r["h1_count"], 0) = 0
                                /\ fillna(r["h2_count"], 0) = 0),
         LAMBDA r :
           [url |-> get(r, "url", <<>>),
            problema_h1_h2 |-> "Sem H1 E sem H2",
            criticidade |-> "CRITICO MAXIMO",
            prioridade |-> 0,
            h1_count |-> Some(0),
            h2_count |-> Some(0),
            page_type |-> H1H2_detect_page_type(UrlOf(r))])

\* drop_duplicates(subset=['url']), sort_values(['prioridade', 'url']), export
H1H2_export_consolidated_issues(issues) ==
  export_dataframe(
    SortStable(drop_duplicates(issues, LAMBDA r : r["url"]),
      LAMBDA a, b :
        \/ a["prioridade"] < b["prioridade"]
        \/ a["prioridade"] = b["prioridade"] /\ UrlLess(a["url"], b["url"])),
    H1H2Columns)

H1H2_issues(rows, cols) ==
  RunRules(<<H1H2_find_no_h1_issues(rows, cols),
             H1H2_find_no_h2_issues(rows, cols),
             H1H2_find_no_h1_h2_issues(rows, cols)>>)

\* H1H2MissingSheet.create_sheet: the tables written, in order
H1H2_create_sheet(rows, cols) ==
  LET res == H1H2_issues(rows, cols)
  IN IF res.exc # "" THEN <<ErrorTable(res.exc)>>
     ELSE IF res.issues # <<>> THEN <<H1H2_export_consolidated_issues(res.issues)>>
     ELSE <<SuccessTable("Estrutura de H1/H2 adequada")>>

----------------------------------------------------------------------------
(* ImageProblemsSheet *)

\* the missing-ALT rule with CRITICO from 5 images on
Image_find_no_alt_issues_from_5(rows, cols) ==
  IF "images_without_alt" \notin cols THEN Ok(<<>>)
  ELSE PerRow(
         safe_filter(rows, cols, "images_without_alt",
                     LAMBDA r : fillna(r["images_without_alt"], 0) > 0),
         LAMBDA r :
           [url |-> get(r, "url", <<>>),
            problema |-> Label("imagens sem ALT", r["images_without_alt"]),
            criticidade |-> IF gt(r["images_without_alt"], 4) THEN "CRITICO" ELSE "ALTO",
            images_count |-> get(r, "images_count", 0),
            images_without_alt |-> r["images_without_alt"],
            images_with_alt |-> sub(get(r, "images_count", 0), r["images_without_alt"]),
            page_type |-> Image_detect_page_type(UrlOf(r))])

ImageColumns ==
  {"url", "problema", "criticidade", "images_count", "images_without_alt",
   "images_with_alt", "page_type"}

Image_find_no_alt_issues(rows, cols) ==
  IF "images_without_alt" \notin cols THEN Ok(<<>>)
  ELSE PerRow(
         safe_filter(rows, cols, "images_without_alt",
                     LAMBDA r : fillna(r["images_without_alt"], 0) > 0),
         LAMBDA r :
           [url |-> get(r, "url", <<>>),
            problema |-> Label("imagens sem ALT", r["images_without_alt"]),
            criticidade |-> IF gt(r["images_without_alt"], 5) THEN "CRITICO" ELSE "ALTO",
            images_count |-> get(r, "images_count", 0),
            images_without_alt |-> r["images_without_alt"],
            images_with_alt |-> sub(get(r, "images_count", 0), r["images_without_alt"]),
            page_type |-> Image_detect_page_type(UrlOf(r))])

Image_find_no_src_issues(rows, cols) ==
  IF "images_without_src" \notin cols THEN Ok(<<>>)
  ELSE PerRow(
         safe_filter(rows, cols, "images_without_src",
                     LAMBDA r : fillna(r["images_without_src"], 0) > 0),
         LAMBDA r :
           [url |-> get(r, "url", <<>>),
            problema |-> Label("imagens sem SRC", r["images_without_src"]),
            criticidade |-> "CRITICO",
            images_count |-> get(r, "images_count", 0),
            images_without_alt |-> NaN,
            images_with_alt |-> sub(get(r, "images_count", 0),
                                    get(r, "images_without_alt", 0)),
            page_type |-> Image_detect_page_type(UrlOf(r))])

Image_find_many_images_issues(rows, cols) ==
  IF "images_count" \notin cols THEN Ok(<<>>)
  ELSE PerRow(
         safe_filter(rows, cols, "images_count",
                     LAMBDA r : fillna(r["images_count"], 0) > 50),
         LAMBDA r :
           [url |-> get(r, "url", <<>>),
            problema |-> Label("Muitas imagens", r["images_count"]),
            criticidade |-> IF gt(r["images_count"], 100) THEN "ALTO" ELSE "MEDIO",
            images_count |-> r["images_count"],
            images_without_alt |-> get(r, "images_without_alt", 0),
            images_with_alt |-> sub(r["images_count"], get(r, "images_without_alt", 0)),
            page_type |-> Image_detect_page_type(UrlOf(r))])

Image_find_no_images_issues(rows, cols) ==
  IF "images_count" \notin cols THEN Ok(<<>>)
  ELSE LET no_images == safe_filter(rows, cols, "images_count",
                                    LAMBDA r : fillna(r["images_count"], 0) = 0)
       IN IF \E i \in 1..Len(no_images) : UrlRaises(no_images[i])
          THEN Raise("AttributeError")
          ELSE Ok(MapSeq(
                 SelectRows(no_images,
                   LAMBDA r : Image_detect_page_type(UrlOf(r))
                                \in {"Produto", "Blog/Artigo", "Categoria"}),
                 LAMBDA r :
                   [url |-> get(r, "url", <<>>),
                    problema |-> Label("Nenhuma imagem encontrada", NaN),
                    criticidade |-> IF Image_detect_page_type(UrlOf(r)) = "Produto"
                                    THEN "MEDIO" ELSE "BAIXO",
                    images_count |-> Some(0),
                    images_without_alt |-> Some(0),
                    images_with_alt |-> Some(0),
                    page_type |-> Image_detect_page_type(UrlOf(r))]))

\* images_count > 0, less than 80% of the images with dimensions, some without
dimension_problem(r) ==
  LET images_count == get(r, "images_count", 0)
      with_dimensions == get(r, "images_with_dimensions", 0)
  IN /\ gt(images_count, 0)
     /\ ~IsNaN(with_dimensions)
     /\ with_dimensions[1] * 100 < 80 * images_count[1]
     /\ images_count[1] - with_dimensions[1] > 0

Image_find_dimension_issues(rows, cols) ==
  IF "images_with_dimensions" \notin cols \/ "images_count" \notin cols THEN Ok(<<>>)
  ELSE PerRow(
         SelectRows(rows, dimension_problem),
         LAMBDA r :
           [url |-> get(r, "url", <<>>),
            problema |-> Label("imagens sem dimensoes",
                               sub(r["images_count"], r["images_with_dimensions"])),
            criticidade |-> "BAIXO",
            images_count |-> r["images_count"],
            images_without_alt |-> get(r, "images_without_alt", 0),
            images_with_alt |-> sub(r["images_count"], get(r, "images_without_alt", 0)),
            page_type |-> Image_detect_page_type(UrlOf(r))])

Image_export_consolidated_issues(issues) ==
  export_dataframe(sort_by_criticality(DropUrlProblem(issues)), ImageColumns)

Image_issues(rows, cols) ==
  RunRules(<<Image_find_no_alt_issues(rows, cols),
             Image_find_no_src_issues(rows, cols),
             Image_find_many_images_issues(rows, cols),
             Image_find_no_images_issues(rows, cols),
             Image_find_dimension_issues(rows, cols)>>)

\* ImageProblemsSheet.create_sheet: the tables written, in order
Image_create_sheet(rows, cols) ==
  LET res == Image_issues(rows, cols)
  IN IF res.exc # "" THEN <<ErrorTable(res.exc)>>
     ELSE IF res.issues # <<>> THEN <<Image_export_consolidated_issues(res.issues)>>
     ELSE <<SuccessTable("Nenhum problema de imagem encontrado")>>

----------------------------------------------------------------------------
(* TechnicalProblemsSheet *)

TechnicalColumns == {"url", "problema", "criticidade", "categoria"}

\* an issue of the technical report
TechnicalIssue(r, problema, criticidade, categoria, priority_score) ==
  [url |-> get(r, "url", <<>>),
   problema |-> Label(problema, NaN),
   criticidade |-> criticidade,
   categoria |-> categoria,
   priority_score |-> priority_score]

Technical_find_canonical_issues(rows, cols) ==
  Ok((IF "canonical_url" \in cols
      THEN MapSeq(
             safe_filter(rows, cols, "canonical_url",
                         LAMBDA r : fillna(r["canonical_url"], <<>>) = <<>>),
             LAMBDA r : TechnicalIssue(r, "Sem canonical URL", "MEDIO", "Canonical", 6))
      ELSE <<>>)
     \o
     (IF "canonical_is_self" \in cols
      THEN MapSeq(
             safe_filter(rows, cols, "canonical_is_self",
                         LAMBDA r : fillna(r["canonical_is_self"], TRUE) = FALSE),
             LAMBDA r : TechnicalIssue(r, "Canonical aponta para outra URL", "BAIXO",
                                       "Canonical", 3))
      ELSE <<>>))

Technical_find_viewport_issues(rows, cols) ==
  IF "has_viewport" \notin cols THEN Ok(<<>>)
  ELSE Ok(MapSeq(
         safe_filter(rows, cols, "has_viewport",
                     LAMBDA r : fillna(r["has_viewport"], FALSE) = FALSE),
         LAMBDA r : TechnicalIssue(r, "Sem meta viewport", "ALTO", "Mobile", 8)))

Technical_find_charset_issues(rows, cols) ==
  IF "has_charset" \notin cols THEN Ok(<<>>)
  ELSE Ok(MapSeq(
         safe_filter(rows, cols, "has_charset",
                     LAMBDA r : fillna(r["has_charset"], FALSE) = FALSE),
         LAMBDA r : TechnicalIssue(r, "Sem charset definido", "MEDIO", "Encoding", 5)))

Technical_find_schema_issues(rows, cols) ==
  IF "schema_total_count" \notin cols THEN Ok(<<>>)
  ELSE LET no_schema == safe_filter(rows, cols, "schema_total_count",
                                    LAMBDA r : fillna(r["schema_total_count"], 0) = 0)
       IN IF \E i \in 1..Len(no_schema) : UrlRaises(no_schema[i])
          THEN Raise("AttributeError")
          ELSE Ok(MapSeq(
                 SelectRows(no_schema,
                   LAMBDA r : Technical_detect_page_type(UrlOf(r))
                                \in {"Produto", "Blog/Artigo", "Categoria", "Institucional"}),
                 LAMBDA r :
                   IF Technical_detect_page_type(UrlOf(r)) = "Produto"
                   THEN TechnicalIssue(r, "Sem structured data (Schema)", "MEDIO",
                                       "Structured Data", 7)
                   ELSE TechnicalIssue(r, "Sem structured data (Schema)", "BAIXO",
                                       "Structured Data", 4)))

Technical_find_robots_issues(rows, cols) ==
  Ok((IF "meta_robots_noindex" \in cols
      THEN MapSeq(
             safe_filter(rows, cols, "meta_robots_noindex",
                         LAMBDA r : fillna(r["meta_robots_noindex"], FALSE) = TRUE),
             LAMBDA r : TechnicalIssue(r, "Meta robots: noindex", "ALTO", "Indexacao", 9))
      ELSE <<>>)
     \o
     (IF "meta_robots_nofollow" \in cols
      THEN MapSeq(
             safe_filter(rows, cols, "meta_robots_nofollow",
                         LAMBDA r : fillna(r["meta_robots_nofollow"], FALSE) = TRUE),
             LAMBDA r : TechnicalIssue(r, "Meta robots: nofollow", "MEDIO",
                                       "Link Equity", 5))
      ELSE <<>>))

Technical_find_favicon_issues(rows, cols) ==
  IF "has_favicon" \notin cols THEN Ok(<<>>)
  ELSE Ok(MapSeq(
         safe_filter(rows, cols, "has_favicon",
                     LAMBDA r : fillna(r["has_favicon"], FALSE) = FALSE),
         LAMBDA r : TechnicalIssue(r, "Sem favicon", "BAIXO", "UX/Branding", 2)))

Technical_find_og_issues(rows, cols) ==
  IF "og_tags_count" \notin cols THEN Ok(<<>>)
  ELSE LET no_og == safe_filter(rows, cols, "og_tags_count",
                                LAMBDA r : fillna(r["og_tags_count"], 0) = 0)
       IN IF \E i \in 1..Len(no_og) : UrlRaises(no_og[i])
          THEN Raise("AttributeError")
          ELSE Ok(MapSeq(
                 SelectRows(no_og,
                   LAMBDA r : Technical_detect_page_type(UrlOf(r))
                                \in {"Produto", "Blog/Artigo", "Homepage"}),
                 LAMBDA r :
                   IF Technical_detect_page_type(UrlOf(r)) \in {"Produto", "Homepage"}
                   THEN TechnicalIssue(r, "Sem Open Graph tags", "MEDIO",
                                       "Social Media", 6)
                   ELSE TechnicalIssue(r, "Sem Open Graph tags", "BAIXO",
                                       "Social Media", 3)))

\* the position of a criticality when the column is sorted as text
CriticalityTextRank(c) ==
  CASE c = "ALTO" -> 1
    [] c = "BAIXO" -> 2
    [] c = "CRITICO" -> 3
    [] c = "CRITICO MAXIMO" -> 4
    [] c = "MEDIO" -> 5
    [] OTHER -> 6

\* a variant of Technical_sort that sorts on the criticidade text alone
Technical_sort_by_text(rows) ==
  SortStable(rows,
    LAMBDA a, b :
      CriticalityTextRank(a["criticidade"]) < CriticalityTextRank(b["criticidade"]))

\* sort_values(['priority_score', 'criticidade'], ascending=[False, True])
Technical_sort(rows) ==
  SortStable(rows,
    LAMBDA a, b :
      \/ a["priority_score"] > b["priority_score"]
      \/ /\ a["priority_score"] = b["priority_score"]
         /\ CriticalityTextRank(a["criticidade"]) < CriticalityTextRank(b["criticidade"]))

Technical_export_consolidated_issues(issues) ==
  export_dataframe(Technical_sort(DropUrlProblem(issues)), TechnicalColumns)

Technical_issues(rows, cols) ==
  RunRules(<<Technical_find_canonical_issues(rows, cols),
             Technical_find_viewport_issues(rows, cols),
             Technical_find_charset_issues(rows, cols),
             Technical_find_schema_issues(rows, cols),
             Technical_find_robots_issues(rows, cols),
             Technical_find_favicon_issues(rows, cols),
             Technical_find_og_issues(rows, cols)>>)

\* TechnicalProblemsSheet.create_sheet: the tables written, in order
Technical_create_sheet(rows, cols) ==
  LET res == Technical_issues(rows, cols)
  IN IF res.exc # "" THEN <<ErrorTable(res.exc)>>
     ELSE IF res.issues # <<>> THEN <<Technical_export_consolidated_issues(res.issues)>>
     ELSE <<SuccessTable("Nenhum problema tecnico encontrado")>>

----------------------------------------------------------------------------
(* PerformanceSheet *)

PerformanceColumns ==
  {"url", "problema", "criticidade", "categoria", "response_time",
   "content_length_mb", "page_type"}

MB == 1048576

\* the size shown in a label: f'{content_mb:.1f}', in tenths of a megabyte
\* (round to nearest; a tie cannot occur on the byte counts of the model)
TenthsOfMB(bytes) == (bytes * 10 + MB \div 2) \div MB

\* PerformanceSheet._bytes_to_mb: bytes / (1024 * 1024) if bytes else 0.  The
\* quotient is exact on floats, so a size in megabytes is kept as its byte count
\* and compared through MbGreater; 0 and a missing value map to themselves
bytes_to_mb(bytes_value) ==
  IF IsNaN(bytes_value) THEN NaN
  ELSE IF bytes_value[1] = 0 THEN Some(0)
  ELSE bytes_value

\* content_mb >= n in place of content_mb > n
MbGreaterOrEqual(content_mb, n) == ~IsNaN(content_mb) /\ content_mb[1] >= n * MB

\* content_mb > n
MbGreater(content_mb, n) == gt(content_mb, n * MB)

\* an issue of the performance report (response times are whole seconds in the model)
PerformanceIssue(r, problema, criticidade, categoria, response_time, priority_score) ==
  [url |-> get(r, "url", <<>>),
   problema |-> problema,
   criticidade |-> criticidade,
   categoria |-> categoria,
   response_time |-> response_time,
   content_length_mb |-> bytes_to_mb(get(r, "content_length", 0)),
   page_type |-> Performance_detect_page_type(UrlOf(r)),
   priority_score |-> priority_score]

\* the slow-pages rule without its upper limit
Performance_find_slow_pages_issues_unbounded(rows, cols) ==
  IF "response_time" \notin cols THEN Ok(<<>>)
  ELSE PerRow(
         safe_filter(rows, cols, "response_time",
                     LAMBDA r : fillna(r["response_time"], 0) > 3),
         LAMBDA r : PerformanceIssue(r, Label("Pagina lenta", r["response_time"]),
                                     "ALTO", "Velocidade", r["response_time"], 8))

Performance_find_slow_pages_issues(rows, cols) ==
  IF "response_time" \notin cols THEN Ok(<<>>)
  ELSE PerRow(
         safe_filter(rows, cols, "response_time",
                     LAMBDA r : /\ fillna(r["response_time"], 0) > 3
                                /\ fillna(r["response_time"], 0) <= 5),
         LAMBDA r : PerformanceIssue(r, Label("Pagina lenta", r["response_time"]),
                                     "ALTO", "Velocidade", r["response_time"], 8))

Performance_find_very_slow_pages_issues(rows, cols) ==
  IF "response_time" \notin cols THEN Ok(<<>>)
  ELSE PerRow(
         safe_filter(rows, cols, "response_time",
                     LAMBDA r : fillna(r["response_time"], 0) > 5),
         LAMBDA r : PerformanceIssue(r, Label("Pagina muito lenta", r["response_time"]),
                                     "CRITICO", "Velocidade", r["response_time"], 10))

Performance_find_heavy_pages_issues(rows, cols) ==
  IF "content_length" \notin cols THEN Ok(<<>>)
  ELSE PerRow(
         safe_filter(rows, cols, "content_length",
                     LAMBDA r : fillna(r["content_length"], 0) > MB),
         LAMBDA r :
           LET content_mb == bytes_to_mb(r["content_length"])
               problema == Label("Pagina pesada", Some(TenthsOfMB(content_mb[1])))
           IN IF MbGreater(content_mb, 5)
              THEN PerformanceIssue(r, problema, "CRITICO", "Tamanho",
                                    get(r, "response_time", 0), 9)
              ELSE IF MbGreater(content_mb, 3)
              THEN PerformanceIssue(r, problema, "ALTO", "Tamanho",
                                    get(r, "response_time", 0), 7)
              ELSE PerformanceIssue(r, problema, "MEDIO", "Tamanho",
                                    get(r, "response_time", 0), 5))

\* the counts named in the label of a resource issue, as one number:
\* the image count when > 50 and the link count when > 200
resource_problems(r) ==
  LET images_count == get(r, "images_count", 0)
      total_links == get(r, "total_links_count", 0)
  IN (IF gt(images_count, 50) THEN images_count[1] * 1000 ELSE 0)
     + (IF gt(total_links, 200) THEN total_links[1] ELSE 0)

Performance_find_resource_heavy_issues(rows, cols) ==
  PerRow(
    SelectRows(rows,
      LAMBDA r : /\ resource_problems(r) # 0
                 /\ gt(add(get(r, "images_count", 0), get(r, "total_links_count", 0)), 100)),
    LAMBDA r :
      PerformanceIssue(r, Label("Muitos recursos", Some(resource_problems(r))),
        IF gt(add(get(r, "images_count", 0), get(r, "total_links_count", 0)), 300)
        THEN "ALTO" ELSE "MEDIO",
        "Recursos", get(r, "response_time", 0), 6))

\* text_ratio is a percentage in the model: < 0.1 is < 10
Performance_find_content_efficiency_issues(rows, cols) ==
  IF "text_ratio" \notin cols THEN Ok(<<>>)
  ELSE PerRow(
         safe_filter(rows, cols, "text_ratio",
                     LAMBDA r : fillna(r["text_ratio"], 100) < 10),
         LAMBDA r : PerformanceIssue(r, Label("Baixa eficiencia de conteudo", r["text_ratio"]),
                                     "BAIXO", "Eficiencia", get(r, "response_time", 0), 3))

\* descending order of a numeric column, missing values last
NumGreater(a, b) ==
  IF IsNaN(a) THEN FALSE
  ELSE IF IsNaN(b) THEN TRUE
  ELSE a[1] > b[1]

\* sort_values(['priority_score', 'response_time'], ascending=[False, False])
Performance_sort(rows) ==
  SortStable(rows,
    LAMBDA a, b :
      \/ a["priority_score"] > b["priority_score"]
      \/ /\ a["priority_score"] = b["priority_score"]
         /\ NumGreater(a["response_time"], b["response_time"]))

Performance_export_consolidated_issues(issues) ==
  export_dataframe(Performance_sort(DropUrlProblem(issues)), PerformanceColumns)

Performance_issues(rows, cols) ==
  RunRules(<<Performance_find_slow_pages_issues(rows, cols),
             Performance_find_very_slow_pages_issues(rows, cols),
             Performance_find_heavy_pages_issues(rows, cols),
             Performance_find_resource_heavy_issues(rows, cols),
             Performance_find_content_efficiency_issues(rows, cols)>>)

\* PerformanceSheet.create_sheet: the tables written, in order
Performance_create_sheet(rows, cols) ==
  LET res == Performance_issues(rows, cols)
  IN IF res.exc # "" THEN <<ErrorTable(res.exc)>>
     ELSE IF res.issues # <<>>
     THEN <<Performance_export_consolidated_issues(res.issues)>>
     ELSE <<SuccessTable("Nenhum problema de performance encontrado")>>

----------------------------------------------------------------------------
(* MixedContentSheet *)

\* the text of the url_http column: a fixed text and the counts embedded in it
HttpText(text, a, b) == [text |-> text, a |-> a, b |-> b]

MixedIssue(r, tipo, recurso, url_http, risco) ==
  [url |-> get(r, "url", <<>>),
   tipo_mixed_content |-> tipo,
   tipo_recurso |-> recurso,
   url_http |-> url_http,
   risco |-> risco]

\* the issues of one item list (a missing value is not a list: nothing)
DetailIssues(r, details, tipo, risco) ==
  IF IsNaN(details) THEN <<>>
  ELSE MapSeq(details[1],
         LAMBDA item : MixedIssue(r, tipo, item.type, HttpText(item.url, NaN, NaN),
                                  Some(risco)))

\* 'not details': an empty list is falsy, a missing value (NaN) is truthy
NotDetails(details) == ~IsNaN(details) /\ details[1] = <<>>

\* the issues of one HTTPS page with mixed content
HttpsRowIssues(r) ==
  LET active_count == get(r, "active_mixed_content_count", 0)
      passive_count == get(r, "passive_mixed_content_count", 0)
      active_details == get(r, "active_mixed_content_details", <<>>)
      passive_details == get(r, "passive_mixed_content_details", <<>>)
  IN DetailIssues(r, active_details, "ACTIVE (Critico)",
                  "CRITICO - Bloqueado pelo browser")
     \o DetailIssues(r, passive_details, "PASSIVE (Aviso)", "MEDIO - Cadeado quebrado")
     \o (IF \/ NotDetails(active_details) /\ gt(active_count, 0)
            \/ NotDetails(passive_details) /\ gt(passive_count, 0)
         THEN <<MixedIssue(r, "MIXED CONTENT", "MULTIPLOS",
                           HttpText("active + passive", active_count, passive_count),
                           get(r, "mixed_content_risk", "DESCONHECIDO"))>>
         ELSE <<>>)

\* the condition is built from df['is_https_page'] and
\* df['total_mixed_content_count'] before _safe_filter is called
Mixed_process_https_issues(rows, cols) ==
  IF "is_https_page" \notin cols \/ "total_mixed_content_count" \notin cols
  THEN Raise("KeyError")
  ELSE Ok(Concat(MapSeq(
         safe_filter(rows, cols, "is_https_page",
                     LAMBDA r : /\ fillna(r["is_https_page"], FALSE) = TRUE
                                /\ fillna(r["total_mixed_content_count"], 0) > 0),
         HttpsRowIssues)))

HttpRowIssues(r) ==
  (IF gt(r["http_links_count"], 0)
   THEN <<MixedIssue(r, "HTTP LINKS", "LINKS",
                     HttpText("links HTTP", r["http_links_count"], NaN),
                     Some("BAIXO - Nao e mixed content"))>>
   ELSE <<>>)
  \o
  (IF gt(r["http_forms_count"], 0)
   THEN <<MixedIssue(r, "HTTP FORMS", "FORMS",
                     HttpText("forms HTTP", r["http_forms_count"], NaN),
                     Some("MEDIO - Dados nao criptografados"))>>
   ELSE <<>>)

\* the condition is built from df['http_links_count'] and df['http_forms_count']
\* before _safe_filter is called
Mixed_process_http_issues(rows, cols) ==
  IF "http_links_count" \notin cols \/ "http_forms_count" \notin cols
  THEN Raise("KeyError")
  ELSE Ok(Concat(MapSeq(
         safe_filter(rows, cols, "http_links_count",
                     LAMBDA r : \/ fillna(r["http_links_count"], 0) > 0
                                \/ fillna(r["http_forms_count"], 0) > 0),
         HttpRowIssues)))

\* the risk_order map of _export_issues, unmapped and missing values last
RiskRank(risco) ==
  IF IsNaN(risco) THEN 5
  ELSE CASE risco[1] = "CRITICO - Bloqueado pelo browser" -> 1
         [] risco[1] = "MEDIO - Cadeado quebrado" -> 2
         [] risco[1] = "MEDIO - Dados nao criptografados" -> 3
         [] risco[1] = "BAIXO - Nao e mixed content" -> 4
         [] OTHER -> 5

\* a variant of Mixed_consolidate that sorts without dropping duplicates
Mixed_consolidate_keep_all(issues) ==
  SortStable(issues,
    LAMBDA a, b :
      \/ RiskRank(a["risco"]) < RiskRank(b["risco"])
      \/ RiskRank(a["risco"]) = RiskRank(b["risco"]) /\ UrlLess(a["url"], b["url"]))

\* drop_duplicates on (url, tipo_mixed_content, url_http), then
\* sort_values(['_sort_order', 'url'])
Mixed_consolidate(issues) ==
  SortStable(
    drop_duplicates(issues,
      LAMBDA r : <<r["url"], r["tipo_mixed_content"], r["url_http"]>>),
    LAMBDA a, b :
      \/ RiskRank(a["risco"]) < RiskRank(b["risco"])
      \/ RiskRank(a["risco"]) = RiskRank(b["risco"]) /\ UrlLess(a["url"], b["url"]))

\* MixedContentSheet._export_issues: the rows are written, then the statistics
\* are computed; risco.str.contains raises on a column holding a missing value,
\* and create_sheet then writes the error table as well
Mixed_export_issues(issues) ==
  LET rows == Mixed_consolidate(issues)
  IN IF \E i \in 1..Len(rows) : IsNaN(rows[i]["risco"])
     THEN <<RowsTable(rows), ErrorTable("ValueError")>>
     ELSE <<RowsTable(rows)>>

Mixed_issues(rows, cols) ==
  RunRules(<<Mixed_process_https_issues(rows, cols),
             Mixed_process_http_issues(rows, cols)>>)

\* MixedContentSheet.create_sheet: the tables written, in order
Mixed_create_sheet(rows, cols) ==
  LET res == Mixed_issues(rows, cols)
  IN IF res.exc # "" THEN <<ErrorTable(res.exc)>>
     ELSE IF res.issues # <<>> THEN Mixed_export_issues(res.issues)
     ELSE <<SuccessTable("Nenhum problema de Mixed Content encontrado")>>

----------------------------------------------------------------------------
(* SummarySheet *)

\* len(df[condition]) for a column of the DataFrame
CountRows(rows, P(_)) == Len(SelectRows(rows, P))

\* one metric row, added only when the column exists and the count is positive
Metric(rows, cols, column, label, P(_)) ==
  IF column \in cols /\ CountRows(rows, P) > 0
  THEN <<[metrica |-> label, valor |-> CountRows(rows, P)]>>
  ELSE <<>>

\* value_counts() without head(10)
status_counts_all(rows) ==
  LET present == SelectRows(rows, LAMBDA r : ~IsNaN(r["status_code"]))
      firsts == drop_duplicates(present, LAMBDA r : r["status_code"])
      count(r) == CountRows(present, LAMBDA x : x["status_code"] = r["status_code"])
      sorted == SortStable(firsts, LAMBDA a, b : count(a) > count(b))
  IN MapSeq(sorted,
            LAMBDA r : [metrica |-> "Status", status |-> r["status_code"],
                        valor |-> count(r)])

\* the status codes of the DataFrame by descending count (value_counts().head(10));
\* codes of equal count are kept in order of first appearance
status_counts(rows) ==
  LET present == SelectRows(rows, LAMBDA r : ~IsNaN(r["status_code"]))
      firsts == drop_duplicates(present, LAMBDA r : r["status_code"])
      count(r) == CountRows(present, LAMBDA x : x["status_code"] = r["status_code"])
      sorted == SortStable(firsts, LAMBDA a, b : count(a) > count(b))
  IN MapSeq(SubSeq(sorted, 1, IF Len(sorted) < 10 THEN Len(sorted) ELSE 10),
            LAMBDA r : [metrica |-> "Status", status |-> r["status_code"],
                        valor |-> count(r)])

Summary_add_status_codes_stats(rows, cols) ==
  IF "status_code" \notin cols THEN <<>> ELSE status_counts(rows)

Summary_add_seo_problems_stats(rows, cols) ==
  Metric(rows, cols, "title", "URLs sem titulo",
         LAMBDA r : fillna(r["title"], <<>>) = <<>>)
  \o Metric(rows, cols, "meta_description", "URLs sem meta description",
            LAMBDA r : fillna(r["meta_description"], <<>>) = <<>>)
  \o Metric(rows, cols, "h1_count", "URLs sem H1",
            LAMBDA r : fillna(r["h1_count"], 0) = 0)
  \o Metric(rows, cols, "h2_count", "URLs sem H2",
            LAMBDA r : fillna(r["h2_count"], 0) = 0)
  \o Metric(rows, cols, "images_without_alt", "URLs com imagens sem ALT",
            LAMBDA r : fillna(r["images_without_alt"], 0) > 0)

Summary_add_technical_stats(rows, cols) ==
  Metric(rows, cols, "canonical_url", "URLs sem canonical",
         LAMBDA r : fillna(r["canonical_url"], <<>>) = <<>>)
  \o Metric(rows, cols, "has_viewport", "URLs sem viewport",
            LAMBDA r : fillna(r["has_viewport"], FALSE) = FALSE)
  \o Metric(rows, cols, "response_time", "URLs lentas (>3s)",
            LAMBDA r : fillna(r["response_time"], 0) > 3)

Summary_add_mixed_content_stats(rows, cols) ==
  Metric(rows, cols, "total_mixed_content_count", "URLs com Mixed Content",
         LAMBDA r : fillna(r["total_mixed_content_count"], 0) > 0)
  \o Metric(rows, cols, "active_mixed_content_count", "URLs com Mixed Content CRITICO",
            LAMBDA r : fillna(r["active_mixed_content_count"], 0) > 0)
  \o Metric(rows, cols, "is_https_page", "Total paginas HTTPS",
            LAMBDA r : fillna(r["is_https_page"], FALSE) = TRUE)

\* SummarySheet.create_sheet: the tables written, in order
Summary_create_sheet(rows, cols) ==
  IF Len(rows) = 0 THEN <<ErrorTable("Nenhum dado para resumir")>>
  ELSE <<RowsTable(<<[metrica |-> "Total de URLs", valor |-> Len(rows)]>>
                   \o Summary_add_status_codes_stats(rows, cols)
                   \o Summary_add_seo_problems_stats(rows, cols)
                   \o Summary_add_technical_stats(rows, cols)
                   \o Summary_add_mixed_content_stats(rows, cols))>>

----------------------------------------------------------------------------
(* EmptyHeadingsSheet *)

\* the truth value Python gives a cell holding a list or a string: NaN is a
\* float that is not zero, an empty list or string is false
truthy(c) == IsNaN(c) \/ c[1] # <<>>

\* by_level[level] = by_level.get(level, 0) + 1 on a dict, kept as the
\* sequence of its (key, value) pairs in insertion order
count_level(by_level, level) ==
  IF \E i \in 1..Len(by_level) : by_level[i][1] = level
  THEN [i \in 1..Len(by_level) |->
          IF by_level[i][1] = level THEN <<level, by_level[i][2] + 1>> ELSE by_level[i]]
  ELSE Append(by_level, <<level, 1>>)

RECURSIVE count_levels(_, _)
\* the loop over the detail dicts of one row
count_levels(by_level, details) ==
  IF details = <<>> THEN by_level
  ELSE count_levels(count_level(by_level, Head(details).level), Tail(details))

\* the elements of a set of strings in iteration order: the order of the
\* hash table, which depends on the string hash seed of the interpreter
set_iter(elems, order) == SelectSeq(order, LAMBDA m : m \in elems)

\* the elements of a list
Elems(list) == {list[i] : i \in 1..Len(list)}

RECURSIVE EH_parse_hidden_summary(_, _, _)
\* EmptyHeadingsSheet._parse_hidden_summary: the items 'level: method' of the
\* summary, split on ';'
EH_parse_hidden_summary(items, by_level, methods) ==
  IF items = <<>> THEN [by_level |-> by_level, methods |-> methods]
  ELSE EH_parse_hidden_summary(
         Tail(items),
         count_level(by_level, Head(items).level),
         IF Head(items).css_issue \in Elems(methods) THEN methods
         ELSE Append(methods, Head(items).css_issue))

\* EmptyHeadingsSheet._process_heading_problems(row, url, empty_count,
\* hidden_count), under the set iteration order of the interpreter
EH_process_heading_problems(r, url, empty_count, hidden_count, order) ==
  LET empty_details == get(r, "empty_headings_details", <<>>)
      hidden_details == get(r, "hidden_headings_details", <<>>)
      hidden_summary == get(r, "hidden_headings_summary", <<>>)
      empty_listed == IF truthy(empty_details) /\ ~IsNaN(empty_details)
                      THEN count_levels(<<>>, empty_details[1]) ELSE <<>>
      hidden_listed == IF truthy(hidden_details) /\ ~IsNaN(hidden_details)
                       THEN count_levels(<<>>, hidden_details[1]) ELSE <<>>
      methods_listed == IF truthy(hidden_details) /\ ~IsNaN(hidden_details)
                        THEN set_iter({hidden_details[1][i].css_issue :
                                         i \in 1..Len(hidden_details[1])}, order)
                        ELSE <<>>
      empty_by_level == IF ~truthy(empty_details) /\ gt(empty_count, 0)
                        THEN <<<<"H? (nao especificado)", empty_count[1]>>>>
                        ELSE empty_listed
      fallback == ~truthy(hidden_details) /\ gt(hidden_count, 0)
      parsed == IF fallback /\ truthy(hidden_summary) /\ ~IsNaN(hidden_summary)
                THEN EH_parse_hidden_summary(hidden_summary[1], hidden_listed, methods_listed)
                ELSE IF fallback /\ ~truthy(hidden_summary)
                THEN [by_level |-> <<<<"H? (nao especificado)", hidden_count[1]>>>>,
                      methods |-> <<"CSS escondido">>]
                ELSE [by_level |-> hidden_listed, methods |-> methods_listed]
      methods_text == set_iter(Elems(parsed.methods), order)
  IN IF fallback /\ IsNaN(hidden_summary) THEN Raise("AttributeError")
     ELSE IF IsNaN(empty_count) \/ IsNaN(hidden_count) THEN Raise("ValueError")
     ELSE Ok(<<[url |-> url,
                total_vazias |-> empty_count[1],
                total_escondidas |-> hidden_count[1],
                total_problemas |-> empty_count[1] + hidden_count[1],
                detalhamento |->
                  [vazias |-> empty_by_level,
                   escondidas |-> parsed.by_level,
                   metodos |-> IF parsed.by_level # <<>> THEN methods_text ELSE <<>>],
                metodos_css |-> methods_text]>>)

\* the loop of EmptyHeadingsSheet.create_sheet over the rows
EH_issues(rows, cols, order) ==
  RunRules([i \in 1..Len(rows) |->
     LET url == get(rows[i], "url", <<>>)
         empty_count == get(rows[i], "empty_headings_count", 0)
         hidden_count == get(rows[i], "hidden_headings_count", 0)
     IN IF gt(empty_count, 0) \/ gt(hidden_count, 0)
        THEN EH_process_heading_problems(rows[i], url, empty_count, hidden_count, order)
        ELSE Ok(<<>>)])

\* EmptyHeadingsSheet._export_consolidated_problems: most problems first
EH_export_consolidated_problems(problems) ==
  RowsTable(SortStable(problems, LAMBDA a, b : a.total_problemas > b.total_problemas))

\* EmptyHeadingsSheet.create_sheet: the tables written, in order
EH_create_sheet(rows, cols, order) ==
  LET res == EH_issues(rows, cols, order)
  IN IF res.exc # "" THEN <<ErrorTable(res.exc)>>
     ELSE IF res.issues # <<>> THEN <<EH_export_consolidated_problems(res.issues)>>
     ELSE <<SuccessTable("Nenhuma heading vazia ou escondida encontrada")>>

----------------------------------------------------------------------------
(* The record sets of the model *)

\* the urls of the model
U_a == <<"/", "x">>

U_b == <<"/", "y">>

U_home == <<"/">>

U_produto == <<"/", "produto", "/", "x">>

U_blog == <<"/", "blog", "/", "x">>

\* the records of a mixed-content details list
Item == [type |-> "SCRIPT", url |-> "http://x"]

Item2 == [type |-> "IFRAME", url |-> "http://y"]

\* the DataFrames handed to a sheet: for each sheet a family of shapes, a shape
\* giving the columns present and the cells each column takes (missing values
\* included); the shape with no column is the DataFrame of an empty crawl
Profiles(s) ==
  CASE s = "TitleProblemsSheet" ->
         {<<>>,
          [title |-> {Some(<<>>), Some(<<"x">>)}, title_length |-> {Some(20), Some(61)}],
          [url |-> {Some(U_a), Some(U_b)},
           title |-> {NaN, Some(<<>>), Some(<<"x">>), Some(<<"y">>)},
           title_length |-> {NaN, Some(20), Some(61), Some(71)}]}
    [] s = "MetaProblemsSheet" ->
         {<<>>,
          [meta_description |-> {Some(<<>>), Some(<<"x">>)},
           meta_description_length |-> {Some(100), Some(161)}],
          [url |-> {Some(U_a), Some(U_b)},
           meta_description |-> {NaN, Some(<<>>), Some(<<"x">>), Some(<<"y">>)},
           meta_description_length |-> {NaN, Some(100), Some(161), Some(181)}]}
    [] s = "HeadingProblemsSheet" ->
         {<<>>,
          [url |-> {Some(U_a), Some(U_b)},
           h1_count |-> {Some(0), Some(1), Some(2)},
           h2_count |-> {NaN, Some(0), Some(1)},
           h3_count |-> {Some(0), Some(1)}],
          [url |-> {Some(U_a), Some(U_b)},
           h2_count |-> {Some(0), Some(1)},
           h3_count |-> {Some(0), Some(1)},
           h4_count |-> {Some(0), Some(1)}],
          [url |-> {Some(U_a), Some(U_b)},
           h1_count |-> {NaN, Some(0), Some(1)},
           h1_length |-> {NaN, Some(50), Some(71)}]}
    [] s = "H1H2MissingSheet" ->
         {<<>>,
          [h1_count |-> {Some(0), Some(1)}],
          [url |-> {NaN, Some(U_a), Some(U_b)},
           h1_count |-> {NaN, Some(0), Some(1)},
           h2_count |-> {NaN, Some(0), Some(1)}]}
    [] s = "ImageProblemsSheet" ->
         {<<>>,
          [url |-> {Some(U_produto), Some(U_a)},
           images_count |-> {NaN, Some(0), Some(10), Some(120)},
           images_without_alt |-> {Some(0), Some(3), Some(7)}],
          [url |-> {NaN, Some(U_blog)},
           images_count |-> {Some(10)},
           images_without_src |-> {Some(0), Some(1)}],
          [url |-> {Some(U_a), Some(U_b)},
           images_count |-> {Some(10), Some(60)},
           images_with_dimensions |-> {NaN, Some(0), Some(10)}]}
    [] s = "TechnicalProblemsSheet" ->
         {<<>>,
          [url |-> {Some(U_produto), Some(U_blog), Some(U_home)},
           canonical_url |-> {NaN, Some(U_a)},
           canonical_is_self |-> {Some(TRUE), Some(FALSE)},
           has_viewport |-> {Some(TRUE), Some(FALSE)}],
          [url |-> {Some(U_produto), Some(U_blog), Some(U_home)},
           schema_total_count |-> {Some(0), Some(1)},
           og_tags_count |-> {NaN, Some(1)},
           meta_robots_noindex |-> {Some(TRUE), Some(FALSE)}],
          [url |-> {NaN, Some(U_a)},
           has_charset |-> {Some(TRUE), Some(FALSE)},
           meta_robots_nofollow |-> {Some(TRUE), Some(FALSE)},
           has_favicon |-> {Some(TRUE), Some(FALSE)}],
          [url |-> {Some(U_produto), Some(U_a)},
           has_viewport |-> {NaN, Some(TRUE)},
           schema_total_count |-> {NaN, Some(1)},
           has_favicon |-> {Some(TRUE), Some(FALSE)},
           canonical_is_self |-> {Some(TRUE), Some(FALSE)}]}
    [] s = "PerformanceSheet" ->
         {<<>>,
          [url |-> {Some(U_a), Some(U_b)},
           response_time |-> {NaN, Some(4), Some(6)},
           content_length |-> {NaN, Some(MB + 1), Some(3 * MB + 1), Some(5 * MB + 1)}],
          [url |-> {Some(U_a), Some(U_b)},
           response_time |-> {Some(1), Some(2)},
           images_count |-> {Some(10), Some(60)},
           total_links_count |-> {Some(50), Some(300)}],
          [url |-> {NaN, Some(U_home)},
           response_time |-> {Some(2), Some(4)},
           text_ratio |-> {NaN, Some(5), Some(50)}]}
    [] s = "MixedContentSheet" ->
         {<<>>,
          [url |-> {Some(U_a), Some(U_b)},
           is_https_page |-> {Some(TRUE), Some(FALSE)},
           total_mixed_content_count |-> {NaN, Some(1)}],
          [url |-> {Some(U_a)},
           is_https_page |-> {Some(TRUE), Some(FALSE)},
           total_mixed_content_count |-> {Some(0), Some(1)},
           http_links_count |-> {NaN, Some(0), Some(2)},
           http_forms_count |-> {Some(0), Some(1)}],
          [url |-> {Some(U_a), Some(U_b)},
           is_https_page |-> {Some(TRUE)},
           total_mixed_content_count |-> {Some(0), Some(1)},
           active_mixed_content_count |-> {Some(0), Some(1)},
           active_mixed_content_details |->
             {NaN, Some(<<>>), Some(<<Item, Item>>), Some(<<Item, Item2>>)},
           mixed_content_risk |-> {NaN, Some("ALTO")},
           http_links_count |-> {Some(0)},
           http_forms_count |-> {Some(0)}]}
    [] s = "SummarySheet" ->
         {<<>>,
          [status_code |-> {NaN, Some(200), Some(404)},
           title |-> {Some(<<>>), Some(<<"x">>)},
           response_time |-> {Some(2), Some(4)}],
          [h1_count |-> {NaN, Some(0), Some(1)},
           has_viewport |-> {Some(TRUE), Some(FALSE)},
           is_https_page |-> {Some(TRUE), Some(FALSE)}]}

RECURSIVE RowsOver(_)
\* every row of a shape
RowsOver(p) ==
  IF DOMAIN p = {} THEN {<<>>}
  ELSE LET c == CHOOSE x \in DOMAIN p : TRUE
           rest == [x \in (DOMAIN p) \ {c} |-> p[x]]
       IN {(c :> v) @@ r : v \in p[c], r \in RowsOver(rest)}

RECURSIVE SeqsUpTo(_, _)
\* the sequences of at most n elements of S
SeqsUpTo(S, n) ==
  IF n = 0 THEN {<<>>}
  ELSE LET shorter == SeqsUpTo(S, n - 1)
       IN shorter \cup {Append(q, x) : q \in {t \in shorter : Len(t) = n - 1}, x \in S}

\* the sheets of exporters.ALL_SHEETS that are modelled: the summary and the
\* category sheets
Sheets ==
  {"SummarySheet", "TitleProblemsSheet", "MetaProblemsSheet", "HeadingProblemsSheet",
   "H1H2MissingSheet", "ImageProblemsSheet", "TechnicalProblemsSheet",
   "PerformanceSheet", "MixedContentSheet"}

----------------------------------------------------------------------------
(* The state machine: a sheet object is handed a DataFrame and a writer *)

\* sheet: the class of the sheet object; columns, df: the DataFrame handed to
\* create_sheet; drafts: the issue list built by the rules (and the exception
\* that ended them, if any); writer: the tables written; pc: before or after
\* the call
InitFor(S, n) ==
  /\ sheet \in S
  /\ \E p \in Profiles(sheet) :
        /\ columns = DOMAIN p
        /\ df \in SeqsUpTo(RowsOver(p), n)
  /\ drafts = Ok(<<>>)
  /\ writer = <<>>
  /\ pc = "start"

Init == InitFor(Sheets, MaxRecords)

\* SummarySheet.create_sheet(df, writer): no draft list is built
SummarySheet_create_sheet ==
  /\ pc = "start"
  /\ sheet = "SummarySheet"
  /\ writer' = writer \o Summary_create_sheet(df, columns)
  /\ pc' = "done"
  /\ UNCHANGED <<sheet, columns, df, drafts>>

TitleProblemsSheet_create_sheet ==
  /\ pc = "start"
  /\ sheet = "TitleProblemsSheet"
  /\ drafts' = Title_issues(df, columns)
  /\ writer' = writer \o Title_create_sheet(df, columns)
  /\ pc' = "done"
  /\ UNCHANGED <<sheet, columns, df>>

MetaProblemsSheet_create_sheet ==
  /\ pc = "start"
  /\ sheet = "MetaProblemsSheet"
  /\ drafts' = Meta_issues(df, columns)
  /\ writer' = writer \o Meta_create_sheet(df, columns)
  /\ pc' = "done"
  /\ UNCHANGED <<sheet, columns, df>>

HeadingProblemsSheet_create_sheet ==
  /\ pc = "start"
  /\ sheet = "HeadingProblemsSheet"
  /\ drafts' = Heading_issues(df, columns)
  /\ writer' = writer \o Heading_create_sheet(df, columns)
  /\ pc' = "done"
  /\ UNCHANGED <<sheet, columns, df>>

H1H2MissingSheet_create_sheet ==
  /\ pc = "start"
  /\ sheet = "H1H2MissingSheet"
  /\ drafts' = H1H2_issues(df, columns)
  /\ writer' = writer \o H1H2_create_sheet(df, columns)
  /\ pc' = "done"
  /\ UNCHANGED <<sheet, columns, df>>

ImageProblemsSheet_create_sheet ==
  /\ pc = "start"
  /\ sheet = "ImageProblemsSheet"
  /\ drafts' = Image_issues(df, columns)
  /\ writer' = writer \o Image_create_sheet(df, columns)
  /\ pc' = "done"
  /\ UNCHANGED <<sheet, columns, df>>

TechnicalProblemsSheet_create_sheet ==
  /\ pc = "start"
  /\ sheet = "TechnicalProblemsSheet"
  /\ drafts' = Technical_issues(df, columns)
  /\ writer' = writer \o Technical_create_sheet(df, columns)
  /\ pc' = "done"
  /\ UNCHANGED <<sheet, columns, df>>

PerformanceSheet_create_sheet ==
  /\ pc = "start"
  /\ sheet = "PerformanceSheet"
  /\ drafts' = Performance_issues(df, columns)
  /\ writer' = writer \o Performance_create_sheet(df, columns)
  /\ pc' = "done"
  /\ UNCHANGED <<sheet, columns, df>>

MixedContentSheet_create_sheet ==
  /\ pc = "start"
  /\ sheet = "MixedContentSheet"
  /\ drafts' = Mixed_issues(df, columns)
  /\ writer' = writer \o Mixed_create_sheet(df, columns)
  /\ pc' = "done"
  /\ UNCHANGED <<sheet, columns, df>>

Next ==
  \/ SummarySheet_create_sheet
  \/ TitleProblemsSheet_create_sheet
  \/ MetaProblemsSheet_create_sheet
  \/ HeadingProblemsSheet_create_sheet
  \/ H1H2MissingSheet_create_sheet
  \/ ImageProblemsSheet_create_sheet
  \/ TechnicalProblemsSheet_create_sheet
  \/ PerformanceSheet_create_sheet
  \/ MixedContentSheet_create_sheet

Spec == Init /\ [][Next]_vars

----------------------------------------------------------------------------
(* The duplicate rules alone: a rule is handed a DataFrame of distinct urls *)

\* the url of the i-th record: '/x', '/xx', ...
UrlN(i) == <<"/">> \o [j \in 1..i |-> "x"]

\* the column a sheet's duplicate rule groups by
DupColumn(s) == IF s = "TitleProblemsSheet" THEN "title" ELSE "meta_description"

\* the values of the grouped column
DupValues == {NaN, Some(<<>>), Some(<<"x">>), Some(<<"y">>)}

InitDup ==
  /\ sheet \in {"TitleProblemsSheet", "MetaProblemsSheet"}
  /\ columns = {"url", DupColumn(sheet)}
  /\ \E n \in 0..MaxDupRecords :
        \E vals \in [1..n -> DupValues] :
           df = [i \in 1..n |-> ("url" :> Some(UrlN(i))) @@ (DupColumn(sheet) :> vals[i])]
  /\ drafts = Ok(<<>>)
  /\ writer = <<>>
  /\ pc = "start"

\* one call of TitleProblemsSheet._find_duplicate_title_issues(df)
TitleProblemsSheet_find_duplicate_title_issues ==
  /\ pc = "start"
  /\ sheet = "TitleProblemsSheet"
  /\ drafts' = Title_find_duplicate_title_issues(df, columns)
  /\ pc' = "done"
  /\ UNCHANGED <<sheet, columns, df, writer>>

\* one call of MetaProblemsSheet._find_duplicate_meta_issues(df)
MetaProblemsSheet_find_duplicate_meta_issues ==
  /\ pc = "start"
  /\ sheet = "MetaProblemsSheet"
  /\ drafts' = Meta_find_duplicate_meta_issues(df, columns)
  /\ pc' = "done"
  /\ UNCHANGED <<sheet, columns, df, writer>>

NextDup ==
  \/ TitleProblemsSheet_find_duplicate_title_issues
  \/ MetaProblemsSheet_find_duplicate_meta_issues

SpecDup == InitDup /\ [][NextDup]_vars

----------------------------------------------------------------------------
(* A run: the sheets are handed the same DataFrame, one after the other *)

\* the sheets of a run
RunSheets ==
  {"SummarySheet", "TitleProblemsSheet", "H1H2MissingSheet", "MixedContentSheet"}

\* the shapes of the DataFrame of a run
RunProfiles ==
  {<<>>,
   [url |-> {NaN, Some(U_a)},
    title |-> {Some(<<>>), Some(<<"x">>)},
    h1_count |-> {Some(0), Some(1)}],
   [url |-> {Some(U_a)},
    title |-> {Some(<<>>), Some(<<"x">>)},
    is_https_page |-> {Some(TRUE), Some(FALSE)},
    total_mixed_content_count |-> {Some(0)},
    http_links_count |-> {Some(0), Some(2)},
    http_forms_count |-> {Some(0)}]}

\* the issue list (or the exception) of the rules of sheet s
IssuesOf(s, rows, cols) ==
  CASE s = "TitleProblemsSheet" -> Title_issues(rows, cols)
    [] s = "H1H2MissingSheet" -> H1H2_issues(rows, cols)
    [] s = "MixedContentSheet" -> Mixed_issues(rows, cols)
    [] OTHER -> Ok(<<>>)

\* the tables create_sheet of sheet s writes
ReportOf(s, rows, cols) ==
  CASE s = "SummarySheet" -> Summary_create_sheet(rows, cols)
    [] s = "TitleProblemsSheet" -> Title_create_sheet(rows, cols)
    [] s = "H1H2MissingSheet" -> H1H2_create_sheet(rows, cols)
    [] s = "MixedContentSheet" -> Mixed_create_sheet(rows, cols)

\* the exception of the tables of an error sheet ("" when there is none)
Caught(tables) ==
  IF \E i \in 1..Len(tables) : tables[i].kind = "error"
  THEN (CHOOSE t \in {tables[i] : i \in 1..Len(tables)} : t.kind = "error").msg
  ELSE ""

\* a handler that raises again after it has written the error sheet
propagated_reraise(tables) == Caught(tables)

\* the exception create_sheet lets out to its caller: the body of every
\* create_sheet is inside try/except Exception, and the handler only logs and
\* writes the error sheet
propagated(tables) == ""

\* a to_excel under one sheet name for every sheet
to_excel_one_name(wr, s, tables) == [wr EXCEPT !["TitleProblemsSheet"] = tables]

\* to_excel(writer, sheet_name=self.get_sheet_name()): the tables go under
\* the name of the sheet
to_excel(wr, s, tables) == [wr EXCEPT ![s] = tables]

\* a run starts with an empty workbook; sheet is the sheet that ran last
InitRun ==
  /\ sheet = ""
  /\ \E p \in RunProfiles :
        /\ columns = DOMAIN p
        /\ df \in SeqsUpTo(RowsOver(p), MaxRecords)
  /\ drafts = Ok(<<>>)
  /\ writer = [s \in RunSheets |-> <<>>]
  /\ pc = "start"

\* the sheets of the run that have written their tables
Written == {s \in RunSheets : writer[s] # <<>>}

\* s.create_sheet(df, writer) for a sheet that has not run yet; an exception
\* that leaves create_sheet ends the run
Run_create_sheet(s) ==
  /\ pc = "start"
  /\ writer[s] = <<>>
  /\ sheet' = s
  /\ drafts' = IssuesOf(s, df, columns)
  /\ writer' = to_excel(writer, s, ReportOf(s, df, columns))
  /\ pc' = IF propagated(ReportOf(s, df, columns)) # "" THEN "raised"
           ELSE IF Written \cup {s} = RunSheets THEN "done"
           ELSE "start"
  /\ UNCHANGED <<columns, df>>

NextRun == \E s \in RunSheets : Run_create_sheet(s)

SpecRun == InitRun /\ [][NextRun]_vars

----------------------------------------------------------------------------
(* The empty-headings sheet called twice on one DataFrame *)

\* the detail dicts of the model
HiddenNone == [level |-> "H1", css_issue |-> "display:none"]

HiddenVis == [level |-> "H2", css_issue |-> "visibility:hidden"]

\* the shapes of the DataFrame
EHProfiles ==
  {<<>>,
   [url |-> {Some(U_a)},
    empty_headings_count |-> {NaN, Some(0), Some(1)},
    hidden_headings_count |-> {Some(0), Some(2)},
    hidden_headings_details |->
      {NaN, Some(<<>>), Some(<<HiddenNone, HiddenVis>>), Some(<<HiddenNone, HiddenNone>>)}],
   [url |-> {Some(U_a)},
    empty_headings_count |-> {Some(0), Some(2)},
    empty_headings_details |-> {Some(<<>>), Some(<<[level |-> "H1"], [level |-> "H1"]>>)},
    hidden_headings_count |-> {Some(0), Some(3)},
    hidden_headings_summary |->
      {NaN, Some(<<>>), Some(<<HiddenVis, HiddenNone, HiddenVis>>)}]}

\* the iteration orders a set of CSS methods can have: one per hash seed
HashOrders ==
  LET M == {"CSS escondido", "display:none", "visibility:hidden"}
  IN {o \in [1..3 -> M] : \A i, j \in 1..3 : o[i] = o[j] => i = j}

\* writer holds the tables of each call, in call order
InitTwice ==
  /\ sheet = "EmptyHeadingsSheet"
  /\ \E p \in EHProfiles :
        /\ columns = DOMAIN p
        /\ df \in SeqsUpTo(RowsOver(p), MaxRecords)
  /\ drafts = Ok(<<>>)
  /\ writer = <<>>
  /\ pc = "start"

\* EmptyHeadingsSheet.create_sheet(df, writer) in an interpreter whose hash
\* seed gives the sets of strings some iteration order
EmptyHeadingsSheet_create_sheet ==
  /\ pc \in {"start", "once"}
  /\ \E order \in HashOrders :
        /\ drafts' = EH_issues(df, columns, order)
        /\ writer' = Append(writer, EH_create_sheet(df, columns, order))
  /\ pc' = IF pc = "start" THEN "once" ELSE "twice"
  /\ UNCHANGED <<sheet, columns, df>>

NextTwice == EmptyHeadingsSheet_create_sheet

SpecTwice == InitTwice /\ [][NextTwice]_vars

----------------------------------------------------------------------------
(* Single rules and the page-type classifiers, called on a DataFrame whose
   records have distinct urls *)

U_galeria == <<"/", "galeria", "/", "x">>

U_categoria == <<"/", "categoria", "/", "x">>

U_sobre == <<"/", "sobre">>

U_contato == <<"/", "contato">>

\* the sheets whose rules and classifiers are called one by one
RuleSheets ==
  {"TitleProblemsSheet", "MetaProblemsSheet", "PerformanceSheet", "ImageProblemsSheet",
   "H1H2MissingSheet", "TechnicalProblemsSheet"}

\* the shapes of the DataFrame handed to the rules of sheet s: the values on
\* both sides of every threshold, and missing values
RuleProfiles(s) ==
  CASE s = "TitleProblemsSheet" ->
         {[url |-> {Some(U_a), Some(U_b), Some(U_produto)}],
          [url |-> {Some(U_a), Some(U_b), Some(U_produto)},
           title_length |-> {NaN, Some(0), Some(60), Some(61), Some(70), Some(71)}]}
    [] s = "MetaProblemsSheet" ->
         {[url |-> {Some(U_a), Some(U_b), Some(U_produto)},
           meta_description_length |-> {Some(119), Some(161)}],
          [url |-> {Some(U_a), Some(U_b), Some(U_produto)},
           meta_description |-> {NaN, Some(<<>>), Some(<<"x">>)},
           meta_description_length |->
             {NaN, Some(119), Some(120), Some(160), Some(161), Some(179), Some(180)}]}
    [] s = "PerformanceSheet" ->
         {[url |-> {Some(U_a), Some(U_home), Some(U_produto)},
           response_time |-> {NaN, Some(3), Some(4), Some(5), Some(6)}],
          [url |-> {Some(U_a), Some(U_home), Some(U_produto)},
           content_length |->
             {NaN, Some(0), Some(MB), Some(MB + 1), Some(3 * MB), Some(3 * MB + 1),
              Some(5 * MB), Some(5 * MB + 1)}]}
    [] s = "ImageProblemsSheet" ->
         {[url |-> {Some(U_a), Some(U_galeria), Some(U_produto)},
           images_without_alt |-> {Some(0), Some(7)}],
          [url |-> {Some(U_a), Some(U_galeria), Some(U_produto)},
           images_count |-> {NaN, Some(10)},
           images_without_alt |-> {NaN, Some(0), Some(1), Some(5), Some(6), Some(7)}]}
    [] s = "TechnicalProblemsSheet" ->
         {[url |-> {NaN, Some(<<>>), Some(U_home), Some(U_blog), Some(U_sobre),
                    Some(U_contato)}],
          [url |-> {Some(U_a), Some(U_b), Some(U_produto)},
           canonical_is_self |-> {Some(TRUE), Some(FALSE)}],
          [url |-> {Some(U_a), Some(U_b), Some(U_produto)},
           canonical_url |-> {NaN, Some(<<>>), Some(U_a)},
           canonical_is_self |-> {NaN, Some(TRUE), Some(FALSE)}]}
    [] OTHER ->
         {[h1_count |-> {Some(0), Some(1)}],
          [url |-> {NaN, Some(<<>>), Some(U_home), Some(U_blog), Some(U_produto),
                    Some(U_categoria), Some(U_galeria), Some(U_sobre), Some(U_contato),
                    Some(U_a)}]}

\* drafts collects the issues of the rules called so far; pc is the set of
\* the rules called
InitRule ==
  /\ sheet \in RuleSheets
  /\ \E p \in RuleProfiles(sheet) :
        /\ columns = DOMAIN p
        /\ df \in {s \in SeqsUpTo(RowsOver(p), MaxRecords) :
                     \A i, j \in 1..Len(s) :
                        get(s[i], "url", <<>>) = get(s[j], "url", <<>>) => i = j}
  /\ drafts = Ok(<<>>)
  /\ writer = <<>>
  /\ pc = {}

\* TitleProblemsSheet._find_long_title_issues(df)
TitleProblemsSheet_find_long_title_issues ==
  /\ sheet = "TitleProblemsSheet"
  /\ "long_title" \notin pc
  /\ drafts' = RunRules(<<drafts, Title_find_long_title_issues(df, columns)>>)
  /\ pc' = pc \cup {"long_title"}
  /\ UNCHANGED <<sheet, columns, df, writer>>

\* MetaProblemsSheet._find_long_meta_issues(df)
MetaProblemsSheet_find_long_meta_issues ==
  /\ sheet = "MetaProblemsSheet"
  /\ "long_meta" \notin pc
  /\ drafts' = RunRules(<<drafts, Meta_find_long_meta_issues(df, columns)>>)
  /\ pc' = pc \cup {"long_meta"}
  /\ UNCHANGED <<sheet, columns, df, writer>>

\* MetaProblemsSheet._find_short_meta_issues(df)
MetaProblemsSheet_find_short_meta_issues ==
  /\ sheet = "MetaProblemsSheet"
  /\ "short_meta" \notin pc
  /\ drafts' = RunRules(<<drafts, Meta_find_short_meta_issues(df, columns)>>)
  /\ pc' = pc \cup {"short_meta"}
  /\ UNCHANGED <<sheet, columns, df, writer>>

\* PerformanceSheet._find_slow_pages_issues(df)
PerformanceSheet_find_slow_pages_issues ==
  /\ sheet = "PerformanceSheet"
  /\ "slow_pages" \notin pc
  /\ "detect_page_type" \notin pc
  /\ drafts' = RunRules(<<drafts, Performance_find_slow_pages_issues(df, columns)>>)
  /\ pc' = pc \cup {"slow_pages"}
  /\ UNCHANGED <<sheet, columns, df, writer>>

\* PerformanceSheet._find_very_slow_pages_issues(df)
PerformanceSheet_find_very_slow_pages_issues ==
  /\ sheet = "PerformanceSheet"
  /\ "very_slow_pages" \notin pc
  /\ "detect_page_type" \notin pc
  /\ drafts' = RunRules(<<drafts, Performance_find_very_slow_pages_issues(df, columns)>>)
  /\ pc' = pc \cup {"very_slow_pages"}
  /\ UNCHANGED <<sheet, columns, df, writer>>

\* PerformanceSheet._find_heavy_pages_issues(df)
PerformanceSheet_find_heavy_pages_issues ==
  /\ sheet = "PerformanceSheet"
  /\ "heavy_pages" \notin pc
  /\ "detect_page_type" \notin pc
  /\ drafts' = RunRules(<<drafts, Performance_find_heavy_pages_issues(df, columns)>>)
  /\ pc' = pc \cup {"heavy_pages"}
  /\ UNCHANGED <<sheet, columns, df, writer>>

\* ImageProblemsSheet._find_no_alt_issues(df)
ImageProblemsSheet_find_no_alt_issues ==
  /\ sheet = "ImageProblemsSheet"
  /\ "no_alt" \notin pc
  /\ "detect_page_type" \notin pc
  /\ drafts' = RunRules(<<drafts, Image_find_no_alt_issues(df, columns)>>)
  /\ pc' = pc \cup {"no_alt"}
  /\ UNCHANGED <<sheet, columns, df, writer>>

\* TechnicalProblemsSheet._find_canonical_issues(df)
TechnicalProblemsSheet_find_canonical_issues ==
  /\ sheet = "TechnicalProblemsSheet"
  /\ "canonical" \notin pc
  /\ "detect_page_type" \notin pc
  /\ drafts' = RunRules(<<drafts, Technical_find_canonical_issues(df, columns)>>)
  /\ pc' = pc \cup {"canonical"}
  /\ UNCHANGED <<sheet, columns, df, writer>>

\* self._detect_page_type(row) of sheet s
detect_page_type(s, r) ==
  CASE s = "H1H2MissingSheet" -> H1H2_detect_page_type(UrlOf(r))
    [] s = "ImageProblemsSheet" -> Image_detect_page_type(UrlOf(r))
    [] s = "TechnicalProblemsSheet" -> Technical_detect_page_type(UrlOf(r))
    [] s = "PerformanceSheet" -> Performance_detect_page_type(UrlOf(r))

\* _detect_page_type(row) for every row of the DataFrame, before any rule
Sheet_detect_page_type ==
  /\ sheet \in {"H1H2MissingSheet", "ImageProblemsSheet", "TechnicalProblemsSheet",
                "PerformanceSheet"}
  /\ pc = {}
  /\ drafts' = PerRow(df, LAMBDA r : [url |-> get(r, "url", <<>>),
                                      page_type |-> detect_page_type(sheet, r)])
  /\ pc' = {"detect_page_type"}
  /\ UNCHANGED <<sheet, columns, df, writer>>

NextRule ==
  \/ TitleProblemsSheet_find_long_title_issues
  \/ MetaProblemsSheet_find_long_meta_issues
  \/ MetaProblemsSheet_find_short_meta_issues
  \/ PerformanceSheet_find_slow_pages_issues
  \/ PerformanceSheet_find_very_slow_pages_issues
  \/ PerformanceSheet_find_heavy_pages_issues
  \/ ImageProblemsSheet_find_no_alt_issues
  \/ TechnicalProblemsSheet_find_canonical_issues
  \/ Sheet_detect_page_type

SpecRule == InitRule /\ [][NextRule]_vars

\* the value of column c in record r (NaN when the DataFrame has no such column)
Cell(r, c) == IF c \in DOMAIN r THEN r[c] ELSE NaN

\* the criticalities of the issues labelled text that the rules called so far
\* drafted for record i, one per issue
Flags(i, text) ==
  LET hits == {k \in 1..Len(drafts.issues) :
                 /\ drafts.issues[k].url = df[i]["url"]
                 /\ drafts.issues[k].problema.text = text}
  IN [k \in hits |-> drafts.issues[k].criticidade]

\* record i has exactly one issue labelled text, of criticality c
FlaggedAs(i, text, c) ==
  /\ Cardinality(DOMAIN Flags(i, text)) = 1
  /\ \A k \in DOMAIN Flags(i, text) : Flags(i, text)[k] = c

\* record i has no issue labelled text
NotFlagged(i, text) == DOMAIN Flags(i, text) = {}

----------------------------------------------------------------------------
(* The summary sheet alone, on DataFrames with many status codes and on
   DataFrames with the columns of the metrics *)

\* the shapes of the DataFrame with the columns the metrics read
SummaryProfiles ==
  {[title |-> {NaN, Some(<<>>), Some(<<"x">>)},
    meta_description |-> {Some(<<>>), Some(<<"x">>)},
    h1_count |-> {NaN, Some(0), Some(1)}],
   [h2_count |-> {Some(0), Some(2)},
    images_without_alt |-> {NaN, Some(0), Some(3)},
    canonical_url |-> {NaN, Some(<<>>), Some(U_a)}],
   [has_viewport |-> {Some(TRUE), Some(FALSE)},
    response_time |-> {NaN, Some(3), Some(4)},
    status_code |-> {Some(200), Some(404)}],
   [total_mixed_content_count |-> {NaN, Some(0), Some(1)},
    active_mixed_content_count |-> {Some(0), Some(1)},
    is_https_page |-> {Some(TRUE), Some(FALSE)}]}

\* either up to MaxSummaryRecords records that have a status code only, the
\* i-th one 200 or a code of its own (the first one possibly without), or up
\* to MaxRecords records over the columns of the metrics
InitSummary ==
  /\ sheet = "SummarySheet"
  /\ \/ /\ columns = {"status_code"}
        /\ \E n \in 0..MaxSummaryRecords :
              \E own \in [1..n -> {0, 1, 2}] :
                 /\ \A i \in 2..n : own[i] # 2
                 /\ df = [i \in 1..n |->
                            [status_code |-> CASE own[i] = 0 -> Some(200)
                                               [] own[i] = 1 -> Some(200 + i)
                                               [] OTHER -> NaN]]
     \/ \E p \in SummaryProfiles :
           /\ columns = DOMAIN p
           /\ df \in SeqsUpTo(RowsOver(p), MaxRecords)
  /\ drafts = Ok(<<>>)
  /\ writer = <<>>
  /\ pc = "start"

NextSummary == SummarySheet_create_sheet

SpecSummary == InitSummary /\ [][NextSummary]_vars

\* the metrics of the summary: label, column read
SummaryMetrics ==
  {<<"URLs sem titulo", "title">>,
   <<"URLs sem meta description", "meta_description">>,
   <<"URLs sem H1", "h1_count">>,
   <<"URLs sem H2", "h2_count">>,
   <<"URLs com imagens sem ALT", "images_without_alt">>,
   <<"URLs sem canonical", "canonical_url">>,
   <<"URLs sem viewport", "has_viewport">>,
   <<"URLs lentas (>3s)", "response_time">>,
   <<"URLs com Mixed Content", "total_mixed_content_count">>,
   <<"URLs com Mixed Content CRITICO", "active_mixed_content_count">>,
   <<"Total paginas HTTPS", "is_https_page">>}

\* record r meets the condition of the metric on column c
MeetsMetric(c, r) ==
  CASE c \in {"title", "meta_description", "canonical_url"} -> r[c] \in {NaN, Some(<<>>)}
    [] c \in {"h1_count", "h2_count"} -> r[c] \in {NaN, Some(0)}
    [] c = "has_viewport" -> r[c] \in {NaN, Some(FALSE)}
    [] c = "response_time" -> gt(r[c], 3)
    [] c = "is_https_page" -> r[c] = Some(TRUE)
    [] OTHER -> gt(r[c], 0)

\* the number of records of the DataFrame that meet the metric on column c
MetricCount(c) ==
  IF c \in columns THEN Cardinality({i \in 1..Len(df) : MeetsMetric(c, df[i])}) ELSE 0

\* the rows of the summary table labelled l
SummaryRowsOf(l) == {k \in 1..Len(writer[1].rows) : writer[1].rows[k].metrica = l}

----------------------------------------------------------------------------
(* ExcelExporter: the column order of the raw-data sheet *)

\* ExcelExporter._get_column_order()
get_column_order ==
  <<"url", "final_url", "status_code",
    "title", "title_length", "title_words",
    "meta_description", "meta_description_length", "meta_keywords",
    "h1_count", "h1_text", "h1_length",
    "h2_count", "h3_count", "h4_count", "h5_count", "h6_count",
    "internal_links_count", "external_links_count", "total_links_count",
    "images_count", "images_without_alt", "images_without_src",
    "word_count", "character_count", "text_ratio",
    "canonical_url", "canonical_is_self", "meta_robots",
    "has_viewport", "has_charset", "has_favicon",
    "schema_total_count", "og_tags_count", "twitter_tags_count",
    "response_time", "content_length", "content_type",
    "crawl_timestamp">>

\* column names outside the list, in ascending order of their strings ('_'
\* sorts before the lower-case letters)
ExtraNames ==
  <<"active_mixed_content_count", "empty_headings_count", "is_https_page",
    "isbn", "mixed_content_risk">>

\* the position of x in the sequence s (0 when it is not there)
IndexOf(s, x) ==
  IF \E i \in 1..Len(s) : s[i] = x THEN CHOOSE i \in 1..Len(s) : s[i] = x ELSE 0

\* the columns left in the order df.columns has them
unsorted(names) == names

\* sorted(extra_columns): ascending order of the strings
sorted(names) ==
  SortStable(names, LAMBDA a, b : IndexOf(ExtraNames, a) < IndexOf(ExtraNames, b))

\* final_columns of export_results, from df.columns
final_columns(df_columns) ==
  LET available_columns ==
        SelectSeq(get_column_order, LAMBDA col : col \in Elems(df_columns))
      extra_columns ==
        SelectSeq(df_columns, LAMBDA col : col \notin Elems(get_column_order))
  IN available_columns \o sorted(extra_columns)

\* the column names a crawl record of the model may carry
ColumnPool ==
  {"url", "status_code", "title", "response_time", "crawl_timestamp"} \cup Elems(ExtraNames)

\* columns is df.columns: the keys of the records in order of first appearance
InitColumns ==
  /\ sheet = "Dados Completos"
  /\ columns \in {s \in SeqsUpTo(ColumnPool, MaxColumns) :
                    \A i, j \in 1..Len(s) : s[i] = s[j] => i = j}
  /\ df = <<>>
  /\ drafts = Ok(<<>>)
  /\ writer = <<>>
  /\ pc = "start"

\* export_results, the lines that order the columns: writer holds final_columns
ExcelExporter_final_columns ==
  /\ pc = "start"
  /\ sheet = "Dados Completos"
  /\ writer' = final_columns(columns)
  /\ pc' = "done"
  /\ UNCHANGED <<sheet, columns, df, drafts>>

NextColumns == ExcelExporter_final_columns

SpecColumns == InitColumns /\ [][NextColumns]_vars

----------------------------------------------------------------------------
(* ExcelExporter.export_results, step by step.  df holds crawl_data, sheet
   the file path, writer the operations on the workbook so far with their
   result, drafts the way the call ended *)

\* the sheets export_results creates after the raw-data sheet, in call order
InlineSheets ==
  <<"Resumo", "Status", "Titulos", "Meta", "Headings", "H1_H2", "Imagens",
    "Tecnico", "Performance", "Analise Tecnica">>

\* one operation on the workbook and whether it went through
Event(op, ok) == [op |-> op, ok |-> ok]

\* the operations whose failure is not handled where it happens
WorkbookLevel == {"DataFrame", "ExcelWriter", "Dados Completos", "save", "getsize"}

\* an except clause that logs and returns the empty path
return_empty_on_failure(filepath) == Ok(<<"">>)

\* except Exception as e: raise ExportException(error_msg, filename=filepath,
\* format_type='xlsx')
raise_ExportException(filepath) == [exc |-> "ExportException", issues |-> <<filepath, "xlsx">>]

\* pd.DataFrame(crawl_data).empty: no rows or no columns
df_empty(crawl_data) == \A i \in 1..Len(crawl_data) : DOMAIN crawl_data[i] = {}

InitExport ==
  /\ sheet = "seofrog_output/seofrog_crawl.xlsx"
  /\ columns = {}
  /\ df \in SeqsUpTo({<<>>} \cup RowsOver([url |-> {Some(U_a)},
                                           title |-> {Some(<<>>), Some(<<"x">>)}]),
                     MaxRecords)
  /\ drafts = Ok(<<>>)
  /\ writer = <<>>
  /\ pc = "start"

\* if not crawl_data: return ""
Export_check_crawl_data ==
  /\ pc = "start"
  /\ IF df = <<>>
     THEN drafts' = Ok(<<"">>) /\ pc' = "done"
     ELSE drafts' = drafts /\ pc' = "try"
  /\ UNCHANGED <<sheet, columns, df, writer>>

\* df = pd.DataFrame(crawl_data); if df.empty: return ""; the column order
Export_build_dataframe ==
  /\ pc = "try"
  /\ \E ok \in BOOLEAN :
        IF ~ok
        THEN /\ writer' = Append(writer, Event("DataFrame", FALSE))
             /\ drafts' = raise_ExportException(sheet)
             /\ pc' = "done"
             /\ columns' = columns
        ELSE IF df_empty(df)
        THEN /\ writer' = writer
             /\ drafts' = Ok(<<"">>)
             /\ pc' = "done"
             /\ columns' = columns
        ELSE /\ writer' = writer
             /\ drafts' = drafts
             /\ pc' = "dataframe"
             /\ columns' = UNION {DOMAIN df[i] : i \in 1..Len(df)}
  /\ UNCHANGED <<sheet, df>>

\* with pd.ExcelWriter(filepath, engine=engine) as writer
Export_open_writer ==
  /\ pc = "dataframe"
  /\ \E ok \in BOOLEAN :
        /\ writer' = Append(writer, Event("ExcelWriter", ok))
        /\ drafts' = IF ok THEN drafts ELSE raise_ExportException(sheet)
        /\ pc' = IF ok THEN "writer" ELSE "done"
  /\ UNCHANGED <<sheet, columns, df>>

\* df.to_excel(writer, sheet_name='Dados Completos', index=False)
Export_write_raw_data ==
  /\ pc = "writer"
  /\ \E ok \in BOOLEAN :
        /\ writer' = Append(writer, Event("Dados Completos", ok))
        /\ drafts' = IF ok THEN drafts ELSE raise_ExportException(sheet)
        /\ pc' = IF ok THEN "sheets" ELSE "done"
  /\ UNCHANGED <<sheet, columns, df>>

\* the _create_*_sheet calls: each one handles its own failure (at most one
\* of them fails in the model)
Export_create_sheets ==
  /\ pc = "sheets"
  /\ \E failing \in {0} \cup (1..Len(InlineSheets)) :
        writer' = writer \o [i \in 1..Len(InlineSheets) |->
                               Event(InlineSheets[i], i # failing)]
  /\ pc' = "format"
  /\ UNCHANGED <<sheet, columns, df, drafts>>

\* self._format_workbook(writer): handles its own failure
Export_format_workbook ==
  /\ pc = "format"
  /\ \E ok \in BOOLEAN : writer' = Append(writer, Event("format", ok))
  /\ pc' = "close"
  /\ UNCHANGED <<sheet, columns, df, drafts>>

\* the end of the with block: the workbook is saved
Export_close_writer ==
  /\ pc = "close"
  /\ \E ok \in BOOLEAN :
        /\ writer' = Append(writer, Event("save", ok))
        /\ drafts' = IF ok THEN drafts ELSE raise_ExportException(sheet)
        /\ pc' = IF ok THEN "saved" ELSE "done"
  /\ UNCHANGED <<sheet, columns, df>>

\* os.path.getsize(filepath), the log lines, return filepath
Export_return_filepath ==
  /\ pc = "saved"
  /\ \E ok \in BOOLEAN :
        /\ writer' = Append(writer, Event("getsize", ok))
        /\ drafts' = IF ok THEN Ok(<<sheet>>) ELSE raise_ExportException(sheet)
  /\ pc' = "done"
  /\ UNCHANGED <<sheet, columns, df>>

NextExport ==
  \/ Export_check_crawl_data
  \/ Export_build_dataframe
  \/ Export_open_writer
  \/ Export_write_raw_data
  \/ Export_create_sheets
  \/ Export_format_workbook
  \/ Export_close_writer
  \/ Export_return_filepath

SpecExport == InitExport /\ [][NextExport]_vars

\* the workbook-level operations that failed
Failed == {k \in 1..Len(writer) : writer[k].op \in WorkbookLevel /\ ~writer[k].ok}

----------------------------------------------------------------------------
(* What a run leaves behind *)

\* the sheets that report the issues of one category
CategorySheets == Sheets \ {"SummarySheet"}

\* the rows of the tables written, in order (a marker table has none)
ReportRows == Concat(MapSeq(writer, LAMBDA t : t.rows))

\* the problem of an issue: its label; in the mixed-content report, which has
\* no label column, the kind of finding and the resource found
ProblemOf(r) ==
  IF "problema" \in DOMAIN r THEN <<r["problema"]>>
  ELSE IF "problema_h1_h2" \in DOMAIN r THEN <<r["problema_h1_h2"]>>
  ELSE <<r["tipo_mixed_content"], r["url_http"]>>

PairOf(r) == <<r["url"], ProblemOf(r)>>

\* the criticalities from the most severe to the least
SeverityOrder == <<"CRITICO MAXIMO", "CRITICO", "ALTO", "MEDIO", "BAIXO">>

\* the rank of a criticality in that order, any other value after BAIXO
SeverityRank(c) ==
  IF \E i \in 1..Len(SeverityOrder) : SeverityOrder[i] = c
  THEN CHOOSE i \in 1..Len(SeverityOrder) : SeverityOrder[i] = c
  ELSE Len(SeverityOrder) + 1

\* the rank of the criticality of a report row
RankOf(r) == SeverityRank(r["criticidade"])

\* the tables written hold an error marker
ErrorMarker == \E i \in 1..Len(writer) : writer[i].kind = "error"

\* the only table written is the all-clear marker
AllClear == Len(writer) = 1 /\ writer[1].kind = "success"

----------------------------------------------------------------------------
(* Claims *)

\* C1: for every record set and every category, the report written by the
\* category's create_sheet never holds two rows with the same (url, problem)
\* pair
C1_NoTwoRowsSharePair ==
  sheet \in CategorySheets =>
    \A i, j \in 1..Len(ReportRows) :
       i # j => PairOf(ReportRows[i]) # PairOf(ReportRows[j])

\* a report of at least two rows whose drafts held the same pair twice
C1_Witness ==
  /\ pc = "done"
  /\ sheet \in CategorySheets
  /\ Len(ReportRows) >= 2
  /\ \E i, j \in 1..Len(drafts.issues) :
        i < j /\ PairOf(drafts.issues[i]) = PairOf(drafts.issues[j])

\* C2: (on a DataFrame with a url column, no exception raised)
\* consolidation removes a draft only when an earlier draft has the same
\* (url, problem) pair: every distinct pair produced by the rules of a category
\* appears exactly once in the category's report, so a url with two different
\* problems keeps both rows
C2_EveryDraftPairKeptOnce ==
  (/\ pc = "done"
   /\ sheet \in CategorySheets
   /\ "url" \in columns
   /\ drafts.exc = ""
   /\ ~ErrorMarker) =>
    \A k \in 1..Len(drafts.issues) :
       Cardinality({i \in 1..Len(ReportRows) :
                      PairOf(ReportRows[i]) = PairOf(drafts.issues[k])}) = 1

\* C3: for every record with h1_count = 0 and h2_count = 0 (urls present), the
\* H1H2MissingSheet report holds a row for its url labelled 'Sem H1 E sem H2'
\* with criticality CRITICO MAXIMO, placed before every CRITICO and ALTO row
C3_BothMissingRowOnTop ==
  (/\ pc = "done"
   /\ sheet = "H1H2MissingSheet"
   /\ {"url", "h1_count", "h2_count"} \subseteq columns
   /\ \A k \in 1..Len(df) : ~IsNaN(df[k]["url"])) =>
    \A k \in 1..Len(df) :
       (eq(df[k]["h1_count"], 0) /\ eq(df[k]["h2_count"], 0)) =>
         \E i \in 1..Len(ReportRows) :
            /\ ReportRows[i]["url"] = df[k]["url"]
            /\ ReportRows[i]["problema_h1_h2"] = "Sem H1 E sem H2"
            /\ ReportRows[i]["criticidade"] = "CRITICO MAXIMO"
            /\ \A j \in 1..Len(ReportRows) :
                  ReportRows[j]["criticidade"] \in {"CRITICO", "ALTO"} => i < j

\* a record of the heading report's DataFrame with neither H1 nor H2
BothMissing(k) ==
  /\ {"url", "h1_count", "h2_count"} \subseteq columns
  /\ eq(df[k]["h1_count"], 0)
  /\ eq(df[k]["h2_count"], 0)

\* C4 as stated: for every record with h1_count = 0 and h2_count = 0, the
\* HeadingProblemsSheet report holds a row for its url with problem
\* 'Sem H1 E sem H2' and criticality CRITICO MAXIMO
C4_HeadingRowBothMissing ==
  (pc = "done" /\ sheet = "HeadingProblemsSheet") =>
    \A k \in 1..Len(df) :
       BothMissing(k) =>
         \E i \in 1..Len(ReportRows) :
            /\ ReportRows[i]["url"] = df[k]["url"]
            /\ ReportRows[i]["problema"].text = "Sem H1 E sem H2"
            /\ ReportRows[i]["criticidade"] = "CRITICO MAXIMO"

\* C4 amended: for every record with h1_count = 0 and h2_count = 0, the
\* HeadingProblemsSheet report holds a row for its url with problem 'Sem H1'
\* and criticality CRITICO, and no row labelled 'Sem H1 E sem H2'
C4_HeadingRowSemH1 ==
  (pc = "done" /\ sheet = "HeadingProblemsSheet") =>
    \A k \in 1..Len(df) :
       BothMissing(k) =>
         /\ \E i \in 1..Len(ReportRows) :
               /\ ReportRows[i]["url"] = df[k]["url"]
               /\ ReportRows[i]["problema"] = Label("Sem H1", NaN)
               /\ ReportRows[i]["criticidade"] = "CRITICO"
         /\ \A i \in 1..Len(ReportRows) :
               ReportRows[i]["problema"].text # "Sem H1 E sem H2"

\* a heading report of two rows, one of them for a record with neither H1 nor
\* H2 whose drafts also held a broken-hierarchy issue
C4_Witness ==
  /\ pc = "done"
  /\ sheet = "HeadingProblemsSheet"
  /\ Len(ReportRows) = 2
  /\ \E k \in 1..Len(df) :
        /\ BothMissing(k)
        /\ \E i \in 1..Len(drafts.issues) :
              /\ drafts.issues[i]["url"] = df[k]["url"]
              /\ drafts.issues[i]["problema"].text = "Hierarquia quebrada"


\* the records of the DataFrame that share the grouped value of record k
SameValue(k) ==
  {i \in 1..Len(df) : df[i][DupColumn(sheet)] = df[k][DupColumn(sheet)]}

\* the drafts of the rule for the url of record k
DraftsOf(k) ==
  {i \in 1..Len(drafts.issues) : drafts.issues[i]["url"] = df[k]["url"]}

\* C5: given N >= 2 records sharing an identical non-empty value, the duplicate
\* rule emits one draft for each of the N records, labelled with the group size
\* N, and none for a record whose value is empty or unique; the criticality is
\* ALTO iff N > 3 for titles (N > 2 for meta descriptions), otherwise MEDIO
C5_DuplicateRule ==
  pc = "done" =>
    /\ drafts.exc = ""
    /\ \A k \in 1..Len(df) :
          LET v == df[k][DupColumn(sheet)]
              N == Cardinality(SameValue(k))
          IN IF ~IsNaN(v) /\ v[1] # <<>> /\ N >= 2
             THEN /\ Cardinality(DraftsOf(k)) = 1
                  /\ \A i \in DraftsOf(k) :
                        /\ drafts.issues[i]["problema"] =
                             Label(IF sheet = "TitleProblemsSheet"
                                   THEN "Titulo duplicado"
                                   ELSE "Meta description duplicada", Some(N))
                        /\ drafts.issues[i]["criticidade"] =
                             IF N > (IF sheet = "TitleProblemsSheet" THEN 3 ELSE 2)
                             THEN "ALTO" ELSE "MEDIO"
             ELSE DraftsOf(k) = {}

\* the title rule has flagged a group of four with ALTO and left a record alone
C5_Witness ==
  /\ pc = "done"
  /\ sheet = "TitleProblemsSheet"
  /\ Len(drafts.issues) = 4
  /\ Len(df) = 5
  /\ \A i \in 1..Len(drafts.issues) : drafts.issues[i]["criticidade"] = "ALTO"

\* the rows of the report are in ascending order of rank, and rows of equal
\* rank in ascending order of url
SortedByRankThenUrl ==
  \A i, j \in 1..Len(ReportRows) :
     i < j =>
       \/ RankOf(ReportRows[i]) < RankOf(ReportRows[j])
       \/ /\ RankOf(ReportRows[i]) = RankOf(ReportRows[j])
          /\ ~UrlLess(ReportRows[j]["url"], ReportRows[i]["url"])

\* no row of the report precedes a row of strictly more severe criticality
SortedByRank ==
  \A i, j \in 1..Len(ReportRows) :
     i < j => RankOf(ReportRows[i]) <= RankOf(ReportRows[j])

\* C6: in the title, meta, heading and image reports the rows are ordered by
\* criticality rank ascending (CRITICO MAXIMO < CRITICO < ALTO < MEDIO < BAIXO <
\* any unmapped value), and rows of equal rank by url ascending
C6_ReportsSortedByRankThenUrl ==
  sheet \in {"TitleProblemsSheet", "MetaProblemsSheet", "HeadingProblemsSheet",
             "ImageProblemsSheet"} => SortedByRankThenUrl

\* a report of two rows of different ranks whose first row is not the first draft
C6_Witness ==
  /\ pc = "done"
  /\ sheet \in {"TitleProblemsSheet", "MetaProblemsSheet", "HeadingProblemsSheet",
                "ImageProblemsSheet"}
  /\ Len(ReportRows) = 2
  /\ RankOf(ReportRows[1]) < RankOf(ReportRows[2])
  /\ drafts.issues[1]["url"] # ReportRows[1]["url"]

\* C7: in the performance report the rows are ordered by criticality rank
\* ascending as the primary key: no row precedes a row of strictly more severe
\* criticality
C7_PerformanceSortedByRank ==
  sheet = "PerformanceSheet" => SortedByRank

\* C8: in the technical report the rows are ordered by criticality rank
\* ascending as the primary key: no row precedes a row of strictly more severe
\* criticality
C8_TechnicalSortedByRank ==
  sheet = "TechnicalProblemsSheet" => SortedByRank

\* a technical report of two rows of different ranks whose first row is not the
\* first draft
C8_Witness ==
  /\ pc = "done"
  /\ sheet = "TechnicalProblemsSheet"
  /\ Len(ReportRows) = 2
  /\ RankOf(ReportRows[1]) < RankOf(ReportRows[2])
  /\ drafts.issues[1]["url"] # ReportRows[1]["url"]

\* C9: for every non-empty record set of urls in which a field read by a rule
\* is absent, the rule contributes no issue and raises nothing, and the report
\* is never the error marker; stated for the mixed-content category, whose
\* rules read is_https_page, total_mixed_content_count, http_links_count and
\* http_forms_count
C9_AbsentFieldNeverError ==
  (pc = "done" /\ sheet = "MixedContentSheet" /\ df # <<>> /\ "url" \in columns) =>
    (drafts.exc = "" /\ ~ErrorMarker)

\* C10: for an empty record set the summary is the 'Nenhum dado para resumir'
\* marker, the report of every category is its all-clear marker, and no
\* exception is raised
C10_EmptyRecordSet ==
  (pc = "done" /\ df = <<>>) =>
    IF sheet = "SummarySheet"
    THEN Len(writer) = 1 /\ writer[1].msg = "Nenhum dado para resumir"
    ELSE drafts.exc = "" /\ AllClear

----------------------------------------------------------------------------
(* C11: in a run, when the rules of one sheet raise, that sheet holds the
   error marker, no exception leaves create_sheet (the run is never ended by
   one), and every sheet that has run holds exactly the tables it writes for
   this DataFrame on its own, whatever happened in the other sheets *)
C11_FailureIsContained ==
  /\ pc # "raised"
  /\ \A s \in Written :
        /\ IssuesOf(s, df, columns).exc # ""
              => \E i \in 1..Len(writer[s]) : writer[s][i].kind = "error"
        /\ writer[s] = ReportOf(s, df, columns)

\* the run is over, the rules of one sheet raised and another sheet wrote a
\* table of issues
C11_Witness ==
  /\ pc = "done"
  /\ \E s, t \in RunSheets :
        /\ IssuesOf(s, df, columns).exc # ""
        /\ Caught(writer[s]) # ""
        /\ t # "SummarySheet"
        /\ IssuesOf(t, df, columns).exc = ""
        /\ \E i \in 1..Len(writer[t]) : writer[t][i].kind = "rows"

----------------------------------------------------------------------------
(* C12: whatever the order in which the sheets of a run are called, a
   create_sheet leaves the DataFrame as it was, changes the tables of no
   other sheet, and writes the tables its sheet writes for this DataFrame on
   its own: the report of a sheet does not depend on what ran before it *)
C12_OrderIndependent ==
  [][/\ df' = df
     /\ columns' = columns
     /\ \A s \in RunSheets :
           writer'[s] # writer[s]
              => /\ s = sheet'
                 /\ writer[s] = <<>>
                 /\ writer'[s] = ReportOf(s, df, columns)]_vars

\* the title sheet ran last, after a sheet that wrote the error marker and
\* one that wrote a table of issues, and wrote a table of issues itself
C12_Witness ==
  /\ pc = "done"
  /\ sheet = "TitleProblemsSheet"
  /\ \E i \in 1..Len(writer[sheet]) : writer[sheet][i].kind = "rows"
  /\ \E s, t \in RunSheets \ {sheet, "SummarySheet"} :
        /\ Caught(writer[s]) # ""
        /\ \E i \in 1..Len(writer[t]) : writer[t][i].kind = "rows"

----------------------------------------------------------------------------
(* C13: two calls of the empty-headings create_sheet on the same DataFrame
   write the same tables: the same rows, cells (the joined CSS methods and
   the details among them) and row order *)
C13_TwoRunsIdentical == pc = "twice" => writer[1] = writer[2]

----------------------------------------------------------------------------
(* C14: when the rules of a category sheet end without an exception, the
   sheet writes the all-clear marker exactly when the rules drafted no issue,
   and no table of zero rows is ever written *)
C14_AllClearIffNoIssue ==
  (pc = "done" /\ sheet \in CategorySheets)
     => /\ drafts.exc = "" => (AllClear <=> drafts.issues = <<>>)
        /\ \A i \in 1..Len(writer) : writer[i].kind = "rows" => writer[i].rows # <<>>

\* a sheet wrote the all-clear marker for a DataFrame that has records
C14_Witness ==
  /\ pc = "done"
  /\ sheet \in CategorySheets
  /\ df # <<>>
  /\ drafts = Ok(<<>>)
  /\ AllClear

----------------------------------------------------------------------------
(* C15: the long-title rule flags a record exactly when its title_length is
   above 60: 60 (and a missing length) is not flagged, 61 to 70 is flagged
   MEDIO, 71 and above is flagged ALTO *)
C15_LongTitleThresholds ==
  "long_title" \in pc =>
     \A i \in 1..Len(df) :
        LET n == Cell(df[i], "title_length")
        IN /\ (IsNaN(n) \/ n[1] <= 60) => NotFlagged(i, "Titulo muito longo")
           /\ (gt(n, 60) /\ lt(n, 71)) => FlaggedAs(i, "Titulo muito longo", "MEDIO")
           /\ gt(n, 70) => FlaggedAs(i, "Titulo muito longo", "ALTO")

\* the rule ran on a title of 60 and a title of 61 characters
C15_Witness ==
  /\ "long_title" \in pc
  /\ \E i, j \in 1..Len(df) :
        /\ Cell(df[i], "title_length") = Some(60)
        /\ Cell(df[j], "title_length") = Some(61)
        /\ FlaggedAs(j, "Titulo muito longo", "MEDIO")

----------------------------------------------------------------------------
(* C16: the long-meta rule flags a record exactly when its
   meta_description_length is above 160, MEDIO for 161 to 179 and ALTO from
   180 on; the short-meta rule flags a record, BAIXO, exactly when its
   description is not empty and its length is below 120; 120 and 160 are
   flagged by neither rule *)
C16_MetaThresholds ==
  \A i \in 1..Len(df) :
     LET n == Cell(df[i], "meta_description_length")
         d == Cell(df[i], "meta_description")
     IN /\ "long_meta" \in pc =>
             /\ (IsNaN(n) \/ n[1] <= 160) => NotFlagged(i, "Meta description muito longa")
             /\ (gt(n, 160) /\ lt(n, 180))
                   => FlaggedAs(i, "Meta description muito longa", "MEDIO")
             /\ gt(n, 179) => FlaggedAs(i, "Meta description muito longa", "ALTO")
        /\ "short_meta" \in pc =>
             IF lt(n, 120) /\ ~IsNaN(d) /\ d # Some(<<>>)
             THEN FlaggedAs(i, "Meta description muito curta", "BAIXO")
             ELSE NotFlagged(i, "Meta description muito curta")

\* both rules ran on a description of 120 and one of 119 characters
C16_Witness ==
  /\ pc = {"long_meta", "short_meta"}
  /\ \E i, j \in 1..Len(df) :
        /\ Cell(df[i], "meta_description_length") = Some(120)
        /\ Cell(df[i], "meta_description") = Some(<<"x">>)
        /\ Cell(df[j], "meta_description_length") = Some(119)
        /\ FlaggedAs(j, "Meta description muito curta", "BAIXO")

----------------------------------------------------------------------------
(* C17: the slow-pages rule flags a record, ALTO, exactly when its
   response_time is above 3 and at most 5; the very-slow-pages rule flags it,
   CRITICO, exactly when it is above 5; no record is flagged by both, and a
   response_time of at most 3 or a missing one is flagged by neither *)
C17_ResponseTimeThresholds ==
  (sheet = "PerformanceSheet" /\ "detect_page_type" \notin pc) =>
     \A i \in 1..Len(df) :
        LET t == Cell(df[i], "response_time")
        IN /\ "slow_pages" \in pc =>
                IF gt(t, 3) /\ ~gt(t, 5) THEN FlaggedAs(i, "Pagina lenta", "ALTO")
                ELSE NotFlagged(i, "Pagina lenta")
           /\ "very_slow_pages" \in pc =>
                IF gt(t, 5) THEN FlaggedAs(i, "Pagina muito lenta", "CRITICO")
                ELSE NotFlagged(i, "Pagina muito lenta")
           /\ NotFlagged(i, "Pagina lenta") \/ NotFlagged(i, "Pagina muito lenta")

\* both rules ran on a response time of 5 and one of 6 seconds
C17_Witness ==
  /\ {"slow_pages", "very_slow_pages"} \subseteq pc
  /\ \E i, j \in 1..Len(df) :
        /\ Cell(df[i], "response_time") = Some(5)
        /\ FlaggedAs(i, "Pagina lenta", "ALTO")
        /\ Cell(df[j], "response_time") = Some(6)
        /\ FlaggedAs(j, "Pagina muito lenta", "CRITICO")

----------------------------------------------------------------------------
(* C18: the heavy-pages rule flags a record exactly when its content_length
   is above 1048576 bytes, with one criticality: CRITICO above 5 MB, ALTO
   above 3 MB up to 5 MB, MEDIO above 1 MB up to 3 MB; exactly 1 MB is not
   flagged *)
C18_ContentLengthThresholds ==
  "heavy_pages" \in pc =>
     \A i \in 1..Len(df) :
        LET b == Cell(df[i], "content_length")
        IN IF gt(b, 5 * 1048576) THEN FlaggedAs(i, "Pagina pesada", "CRITICO")
           ELSE IF gt(b, 3 * 1048576) THEN FlaggedAs(i, "Pagina pesada", "ALTO")
           ELSE IF gt(b, 1048576) THEN FlaggedAs(i, "Pagina pesada", "MEDIO")
           ELSE NotFlagged(i, "Pagina pesada")

\* the rule ran on a page of exactly 1 MB and a page of exactly 5 MB
C18_Witness ==
  /\ "heavy_pages" \in pc
  /\ \E i, j \in 1..Len(df) :
        /\ Cell(df[i], "content_length") = Some(1048576)
        /\ NotFlagged(i, "Pagina pesada")
        /\ Cell(df[j], "content_length") = Some(5 * 1048576)
        /\ FlaggedAs(j, "Pagina pesada", "ALTO")

----------------------------------------------------------------------------
(* C19: for every record with images_without_alt above 0 the missing-ALT
   rule drafts one issue, CRITICO when images_without_alt is above 5 and ALTO
   otherwise, whose images_with_alt is images_count minus images_without_alt
   (10 images, 7 without ALT: CRITICO and 3) *)
C19_MissingAltRule ==
  "no_alt" \in pc =>
     \A i \in 1..Len(df) :
        LET w == Cell(df[i], "images_without_alt")
            n == Cell(df[i], "images_count")
        IN gt(w, 0) =>
             /\ FlaggedAs(i, "imagens sem ALT", IF w[1] > 5 THEN "CRITICO" ELSE "ALTO")
             /\ \A k \in 1..Len(drafts.issues) :
                   (drafts.issues[k].url = df[i]["url"] /\ ~IsNaN(n))
                      => drafts.issues[k].images_with_alt = Some(n[1] - w[1])

\* the rule ran on a record of 10 images, 7 of them without ALT, and drafted
\* a CRITICO issue with 3 images with ALT
C19_Witness ==
  /\ "no_alt" \in pc
  /\ \E i \in 1..Len(df) :
        /\ Cell(df[i], "images_count") = Some(10)
        /\ Cell(df[i], "images_without_alt") = Some(7)
        /\ FlaggedAs(i, "imagens sem ALT", "CRITICO")
        /\ \E k \in 1..Len(drafts.issues) :
              /\ drafts.issues[k].url = df[i]["url"]
              /\ drafts.issues[k].images_with_alt = Some(3)

----------------------------------------------------------------------------
(* C20: for every url, the page type the classifier of a sheet (H1/H2,
   image, technical, performance) computes is one of Blog/Artigo, Produto,
   Categoria, Institucional, Contato, Homepage and Conteudo *)
C20_PageTypeAmongSeven ==
  "detect_page_type" \in pc =>
     \A k \in 1..Len(drafts.issues) :
        drafts.issues[k].page_type \in
          {"Blog/Artigo", "Produto", "Categoria", "Institucional", "Contato",
           "Homepage", "Conteudo"}

----------------------------------------------------------------------------
(* C21: the page-type classifier never raises: it returns a page type for
   every record, one whose url is absent or empty included, and Conteudo
   for a record whose url is absent or empty *)
C21_ClassifierNeverRaises ==
  "detect_page_type" \in pc =>
     /\ drafts.exc = ""
     /\ Len(drafts.issues) = Len(df)
     /\ \A k \in 1..Len(drafts.issues) :
           (IsNaN(drafts.issues[k].url) \/ drafts.issues[k].url = Some(<<>>))
              => drafts.issues[k].page_type = "Conteudo"

----------------------------------------------------------------------------
(* C22 as stated: for a DataFrame that has records the summary holds the
   total row, at most 10 status-code rows and, for every metric of the list
   whose column the DataFrame has, one row whose count is the number of
   records that meet the metric *)
C22_RowForEveryMetric ==
  (pc = "done" /\ df # <<>>) =>
     /\ Len(writer) = 1 /\ writer[1].kind = "rows"
     /\ writer[1].rows[1] = [metrica |-> "Total de URLs", valor |-> Len(df)]
     /\ Cardinality(SummaryRowsOf("Status")) <= 10
     /\ \A m \in SummaryMetrics :
           m[2] \in columns =>
              /\ Cardinality(SummaryRowsOf(m[1])) = 1
              /\ \A k \in SummaryRowsOf(m[1]) : writer[1].rows[k].valor = MetricCount(m[2])

(* C22 as the code has it: the total row, at most 10 status-code rows and,
   for every metric of the list that at least one record meets, one row
   whose count is the number of records that meet it, never above the
   total; a metric that no record meets, or whose column the DataFrame does
   not have, has no row *)
C22_RowForEveryPositiveMetric ==
  (pc = "done" /\ df # <<>>) =>
     /\ Len(writer) = 1 /\ writer[1].kind = "rows"
     /\ writer[1].rows[1] = [metrica |-> "Total de URLs", valor |-> Len(df)]
     /\ SummaryRowsOf("Total de URLs") = {1}
     /\ Cardinality(SummaryRowsOf("Status")) <= 10
     /\ \A m \in SummaryMetrics :
           /\ Cardinality(SummaryRowsOf(m[1])) = IF MetricCount(m[2]) > 0 THEN 1 ELSE 0
           /\ \A k \in SummaryRowsOf(m[1]) :
                 /\ writer[1].rows[k].valor = MetricCount(m[2])
                 /\ writer[1].rows[k].valor <= Len(df)

\* the summary of a DataFrame with more than 10 different status codes
C22_Witness ==
  /\ pc = "done"
  /\ Cardinality({df[i]["status_code"] : i \in 1..Len(df)} \ {NaN}) > 10
  /\ Cardinality(SummaryRowsOf("Status")) = 10

----------------------------------------------------------------------------
(* C23: the column order of the raw-data sheet is a permutation of the
   columns of the DataFrame (none lost, none twice); the columns of the
   priority list come first, in the order of the list, and the other
   columns follow in ascending alphabetical order *)
C23_ColumnOrderIsPermutation ==
  pc = "done" =>
     /\ Len(writer) = Len(columns)
     /\ Elems(writer) = Elems(columns)
     /\ \A i, j \in 1..Len(writer) :
           i < j =>
              LET pi == IndexOf(get_column_order, writer[i])
                  pj == IndexOf(get_column_order, writer[j])
              IN /\ writer[i] # writer[j]
                 /\ pj # 0 => (pi # 0 /\ pi < pj)
                 /\ (pi = 0 /\ pj = 0)
                       => IndexOf(ExtraNames, writer[i]) < IndexOf(ExtraNames, writer[j])

\* the order was computed for a DataFrame whose columns come with an extra
\* column first, a priority column after it, and the extra columns in
\* descending order
C23_Witness ==
  /\ pc = "done"
  /\ Len(columns) >= 3
  /\ columns[1] = "isbn"
  /\ columns[2] = "title"
  /\ columns[3] = "is_https_page"
  /\ writer[1] = "title"

----------------------------------------------------------------------------
(* C24: export_results ends in one of three ways: it returns the file path,
   after the workbook was saved and with no workbook-level failure; or it
   returns the empty path without having written anything, for an empty
   record set; or a failure while the workbook is built or written is
   raised as ExportException with the file path and the format 'xlsx'.  A
   workbook-level failure always ends the call with the exception *)
C24_ThreeOutcomes ==
  /\ pc = "done" =>
        \/ /\ drafts = Ok(<<sheet>>)
           /\ Failed = {}
           /\ \E k \in 1..Len(writer) : writer[k] = Event("save", TRUE)
        \/ /\ drafts = Ok(<<"">>)
           /\ writer = <<>>
           /\ df_empty(df)
        \/ /\ drafts = [exc |-> "ExportException", issues |-> <<sheet, "xlsx">>]
           /\ Failed = {Len(writer)}
  /\ Failed # {} => (pc = "done" /\ drafts.exc = "ExportException")

\* the save of the workbook failed after every sheet was written
C24_Witness ==
  /\ pc = "done"
  /\ drafts.exc = "ExportException"
  /\ writer # <<>>
  /\ writer[Len(writer)] = Event("save", FALSE)

----------------------------------------------------------------------------
(* C25: the canonical rule drafts 'Canonical aponta para outra URL' only for
   a record whose canonical_url is present and not empty and whose
   canonical_is_self is false; a record without canonical is drafted 'Sem
   canonical URL' (MEDIO) and not also 'Canonical aponta para outra URL' *)
C25_CanonicalNotSelfNeedsCanonical ==
  ("canonical" \in pc /\ "canonical_url" \in columns) =>
     \A i \in 1..Len(df) :
        LET c == df[i]["canonical_url"]
        IN /\ ~NotFlagged(i, "Canonical aponta para outra URL")
                 => /\ c \notin {NaN, Some(<<>>)}
                    /\ Cell(df[i], "canonical_is_self") = Some(FALSE)
           /\ c \in {NaN, Some(<<>>)}
                 => /\ FlaggedAs(i, "Sem canonical URL", "MEDIO")
                    /\ NotFlagged(i, "Canonical aponta para outra URL")

\* an issue drafted by one of the two _find_no_h2_issues rules
IsNoH2Finding(x) ==
  IF "problema" \in DOMAIN x THEN x["problema"].text = "Sem H2 (estrutura incompleta)"
  ELSE IF "problema_h1_h2" \in DOMAIN x THEN x["problema_h1_h2"] = "Sem H2"
  ELSE FALSE

\* C26: in the general heading report and in the H1/H2 report alike, the
\* finding 'H2 missing while H1 is present' carries the criticality MEDIO
C26_NoH2IsMedio ==
  (pc = "done" /\ sheet \in {"HeadingProblemsSheet", "H1H2MissingSheet"})
     => \A k \in 1..Len(drafts.issues) :
           IsNoH2Finding(drafts.issues[k]) => drafts.issues[k].criticidade = "MEDIO"

\* C27: every record with is_https_page true and a positive
\* active_mixed_content_count has a row of risk CRITICO for its url in the
\* mixed-content report, with or without a detail list and whatever
\* total_mixed_content_count holds
C27_ActiveMixedHasCriticalRow ==
  (pc = "done" /\ sheet = "MixedContentSheet")
     => \A i \in 1..Len(df) :
           (/\ Cell(df[i], "is_https_page") = Some(TRUE)
            /\ gt(Cell(df[i], "active_mixed_content_count"), 0))
              => \E k \in 1..Len(ReportRows) :
                    /\ ReportRows[k]["url"] = get(df[i], "url", <<>>)
                    /\ ReportRows[k]["risco"] = Some("CRITICO - Bloqueado pelo browser")

----------------------------------------------------------------------------
(* BaseSheet._export_dataframe alone, on issue rows in any order *)

\* the issue rows handed in: a url (missing, or one of two) and a problem
ExportRows ==
  {[url |-> u, problema |-> p, criticidade |-> c] :
     u \in {NaN, Some(U_a), Some(U_b)}, p \in {"p", "q"}, c \in {"ALTO", "BAIXO"}}

\* the columns lists handed in: with the url, without it, and none available
ExportColumnSets ==
  {{"url", "problema", "criticidade"}, {"problema", "criticidade"}, {"title"}}

InitDataframe ==
  /\ sheet = "BaseSheet"
  /\ columns \in ExportColumnSets
  /\ df \in SeqsUpTo(ExportRows, MaxExportRows)
  /\ drafts = [issues |-> <<>>, exc |-> ""]
  /\ writer = <<>>
  /\ pc = "start"

\* one call of _export_dataframe(df, writer, columns)
BaseSheet_export_dataframe ==
  /\ pc = "start"
  /\ sheet = "BaseSheet"
  /\ writer' = <<export_dataframe(df, columns)>>
  /\ pc' = "done"
  /\ UNCHANGED <<sheet, columns, df, drafts>>

NextDataframe == BaseSheet_export_dataframe

SpecDataframe == InitDataframe /\ [][NextDataframe]_vars

\* the first row of df with the url of row j
FirstOfUrl(j) == CHOOSE i \in 1..j : df[i]["url"] = df[j]["url"]
                                     /\ \A h \in 1..(i - 1) : df[h]["url"] # df[j]["url"]

\* C28: in a report written through BaseSheet._export_dataframe each url is in
\* at most one row, and the row kept for a url is the first row with that url
\* in the order the rows had when they were handed in
C28_OneRowPerUrlFirstKept ==
  (pc = "done" /\ sheet = "BaseSheet" /\ "url" \in columns /\ writer[1].kind = "rows")
     => LET out == writer[1].rows
        IN /\ \A k, l \in 1..Len(out) : out[k]["url"] = out[l]["url"] => k = l
           /\ \A j \in 1..Len(df) :
                 \E k \in 1..Len(out) :
                    /\ out[k]["url"] = df[j]["url"]
                    /\ out[k] = Project(df[FirstOfUrl(j)], columns)

\* three rows handed in, two of them with one url and different problems, the
\* later of the two dropped
C28_Witness ==
  /\ pc = "done" /\ sheet = "BaseSheet" /\ "url" \in columns
  /\ writer[1].kind = "rows"
  /\ Len(df) = 3 /\ Len(writer[1].rows) = 2
  /\ df[1]["url"] = Some(U_a)
  /\ df[1]["url"] = df[3]["url"] /\ df[1]["problema"] # df[3]["problema"]
  /\ df[2]["url"] # df[1]["url"]
  /\ writer[1].rows[1]["problema"] = df[1]["problema"]

\* C29: one create_sheet invocation of a category sheet writes exactly one
\* table under the category's sheet name (the issue rows, the all-clear marker
\* or the error marker): never two, never none
C29_ExactlyOneTablePerInvocation ==
  [][(sheet \in CategorySheets) => (Len(writer') = Len(writer) + 1)]_vars

\* C30: in every row of the image report images_with_alt is non-negative (a
\* missing value is let through), also when images_count is absent or smaller
\* than images_without_alt
C30_ImagesWithAltNonNegative ==
  (pc = "done" /\ sheet = "ImageProblemsSheet")
     => \A k \in 1..Len(ReportRows) :
           LET v == Cell(ReportRows[k], "images_with_alt")
           IN ~IsNaN(v) => v[1] >= 0

============================================================================
